---- MODULE Spec2Model ----
(***************************************************************************)
(* CatFlap (src/src/main.cpp): two Wiegand reader channels captured by     *)
(* interrupt handlers, a polling control loop that decodes frames, decides *)
(* access and drives the entry and exit solenoids, and a door sensor.      *)
(*                                                                         *)
(* Spec        one action per handler: loop() runs an iteration as a       *)
(*             whole; the readers, the door sensor and the clock act       *)
(*             between iterations.                                         *)
(* SpecSync    Spec with the NTP callback, which moves the wall clock.     *)
(* SpecDecode  one iteration of loop() on every buffer and width of a      *)
(*             bounded set, for weigandDecode on its own.                  *)
(* SpecIntr    loop() statement by statement through the entry frame, the  *)
(*             entry handlers pulse by pulse in between.                   *)
(* SpecBurst   the entry handlers pulse by pulse on long pulse trains, with *)
(*             loop() an iteration as a whole in between.                  *)
(* SpecLive    Spec beyond the longest deadline, with fairness of loop()   *)
(*             and of the clock.                                           *)
(* SpecConfig  configInit() statement by statement on every stored record  *)
(*             of a bounded set, restarted after each run.                 *)
(***************************************************************************)
EXTENDS Integers, Sequences, FiniteSets, TLC

(***************************************************************************)
(* Program constants                                                       *)
(***************************************************************************)
CFG_NCATS == 7
CFG_CAT_EXIT == 1
CFG_CAT_ENTRY == 2
WEIGAND_TIMEOUT == 20
DOOR_TIMEOUT_DEFAULT == 60
DOOR_SWING_TIMEOUT_DEFAULT == 3
LOCK == 0
EXIT == 0
ENTRY == 1

STATE_ENTRY_WEIGAND_DONE == 1
STATE_EXIT_WEIGAND_DONE == 2
STATE_DOOR_TRIGGER == 16
STATE_ENTRY_OPEN == 128
STATE_EXIT_OPEN == 256
STATE_ENTRY_LOCKED_OPEN == 512
STATE_EXIT_LOCKED_OPEN == 1024

\* analogWrite duty left on the solenoid pin by entryUnlock / exitUnlock
ENTRY_HOLD == 180
EXIT_HOLD == 50
\* delay(500) of the loop while a direction is locked open
LOCKED_OPEN_DELAY == 500
\* width of the locked-open detection window, in seconds
LOCKED_OPEN_WINDOW == 2
\* the only supported frame width
WEIGAND_BITS == 26
\* widths of uint8_t entryBitCount and of uint64_t entryDataBits
BITCOUNT_MOD == 256
DATABITS_WIDTH == 64

(***************************************************************************)
(* Bounds of the model                                                     *)
(***************************************************************************)
\* the monotonic clock stops advancing here (milliseconds)
MaxMillis == 6000
\* cards presented to the readers in one run
MaxReads == 2
\* the wall-clock offset a time synchronisation may install (seconds)
MaxSyncOffset == 100
\* when loop() is stepped by statement: the inter-bit timeouts that pass
\* and the frames the entry reader sends
MaxIntrTicks == 2
MaxIntrFrames == 1
\* when the loop and the clock are followed to the end: the clock stops
\* here, and cards and the door act until here (milliseconds)
MaxLiveMillis == 66000
MaxLiveEvents == 2000

(***************************************************************************)
(* Credential store: conf.cat[] as loaded by configInit.  Slots 0..2 hold  *)
(* credentials, slot 3 repeats slot 0 with other flags, the rest is blank. *)
(***************************************************************************)
Cat(f, i, fl) == [facility |-> f, id |-> i, flags |-> fl]

conf_cat ==
    [i \in 0..(CFG_NCATS - 1) |->
        CASE i = 0 -> Cat(10, 500, {CFG_CAT_ENTRY})
          [] i = 1 -> Cat(10, 501, {CFG_CAT_ENTRY, CFG_CAT_EXIT})
          [] i = 2 -> Cat(20, 600, {CFG_CAT_EXIT})
          [] i = 3 -> Cat(10, 500, {CFG_CAT_EXIT})
          [] OTHER -> Cat(0, 0, {})]

(***************************************************************************)
(* uint64_t data bits, as the sequence of its bits from the most           *)
(* significant set bit down to bit 0 (the empty sequence is 0).            *)
(***************************************************************************)
\* drop the leading zero bits
Strip(s) ==
    LET ones == {i \in 1..Len(s) : s[i] = 1}
    IN IF ones = {} THEN <<>>
       ELSE SubSeq(s, CHOOSE i \in ones : \A j \in ones : i <= j, Len(s))

\* the low 64 bits of d with the bits of a pulse train shifted in
ShiftIn(d, bits) ==
    LET all == d \o bits
    IN Strip(IF Len(all) > DATABITS_WIDTH
             THEN SubSeq(all, Len(all) - DATABITS_WIDTH + 1, Len(all))
             ELSE all)

\* dataBits <<= 1, in 64 bits
ShiftLeft(d) == ShiftIn(d, <<0>>)

\* dataBits |= 1
OrOne(d) ==
    IF d = <<>> THEN <<1>> ELSE Append(SubSeq(d, 1, Len(d) - 1), 1)

\* bit i of d, bit 0 the least significant
BitAt(d, i) == IF i < Len(d) THEN d[Len(d) - i] ELSE 0

RECURSIVE Pow2(_)
Pow2(n) == IF n = 0 THEN 1 ELSE 2 * Pow2(n - 1)

\* (d & mask) >> lo, for the mask with bits lo..hi set
RECURSIVE Field(_, _, _)
Field(d, lo, hi) ==
    IF hi < lo THEN 0 ELSE BitAt(d, lo) + 2 * Field(d, lo + 1, hi)

(***************************************************************************)
(* weigandDecode: the out-parameters are written only for 26 bits          *)
(***************************************************************************)
Unwritten == -1

\* a decode with the field layout at bits 23..16 and 16..1
weigandDecode_low(bitCount, dataBits) ==
    IF bitCount = WEIGAND_BITS
    THEN [ok |-> TRUE,
          facilityCode |-> Field(dataBits, 15, 22),
          cardCode |-> Field(dataBits, 0, 15)]
    ELSE [ok |-> FALSE, facilityCode |-> Unwritten, cardCode |-> Unwritten]

\* a decode that also takes frames longer than 26 bits
weigandDecode_atLeast(bitCount, dataBits) ==
    IF bitCount >= WEIGAND_BITS
    THEN [ok |-> TRUE,
          facilityCode |-> Field(dataBits, 17, 24),
          cardCode |-> Field(dataBits, 1, 16)]
    ELSE [ok |-> FALSE, facilityCode |-> Unwritten, cardCode |-> Unwritten]

weigandDecode(bitCount, dataBits) ==
    IF bitCount = WEIGAND_BITS
    THEN [ok |-> TRUE,
          facilityCode |-> Field(dataBits, 17, 24),
          cardCode |-> Field(dataBits, 1, 16)]
    ELSE [ok |-> FALSE, facilityCode |-> Unwritten, cardCode |-> Unwritten]

(***************************************************************************)
(* catNumber and checkCard                                                 *)
(***************************************************************************)
Matches(i, facilityCode, cardCode) ==
    conf_cat[i].facility = facilityCode /\ conf_cat[i].id = cardCode

catNumber(facilityCode, cardCode) ==
    IF \E i \in 0..(CFG_NCATS - 1) : Matches(i, facilityCode, cardCode)
    THEN CHOOSE i \in 0..(CFG_NCATS - 1) :
            /\ Matches(i, facilityCode, cardCode)
            /\ \A j \in 0..(i - 1) : ~Matches(j, facilityCode, cardCode)
    ELSE CFG_NCATS

\* a lookup that permits when any slot with the pair has the flag
checkCard_anySlot(dir, facilityCode, cardCode) ==
    LET hits == {i \in 0..(CFG_NCATS - 1) :
                    Matches(i, facilityCode, cardCode)}
    IN IF hits = {} THEN -1
       ELSE IF \E i \in hits :
                  \/ (dir = EXIT /\ CFG_CAT_EXIT \in conf_cat[i].flags)
                  \/ (dir = ENTRY /\ CFG_CAT_ENTRY \in conf_cat[i].flags)
            THEN 1 ELSE 0

\* -1 unknown (and a notification), 0 denied, 1 permitted
checkCard(dir, facilityCode, cardCode) ==
    LET i == catNumber(facilityCode, cardCode) IN
    IF i = CFG_NCATS THEN -1
    ELSE IF \/ (dir = EXIT /\ CFG_CAT_EXIT \in conf_cat[i].flags)
            \/ (dir = ENTRY /\ CFG_CAT_ENTRY \in conf_cat[i].flags)
         THEN 1 ELSE 0


(***************************************************************************)
(* The readers: a presented card is sent as a 26-bit Wiegand frame (even   *)
(* parity, 8 facility bits, 16 card bits, odd parity), one pulse per bit   *)
(* on the data-0 or the data-1 line.                                       *)
(***************************************************************************)
ToBits(n, w) == [k \in 1..w |-> (n \div Pow2(w - k)) % 2]

RECURSIVE SumSeq(_)
SumSeq(s) == IF s = <<>> THEN 0 ELSE Head(s) + SumSeq(Tail(s))

Wiegand26(facilityCode, cardCode) ==
    LET data == ToBits(facilityCode, 8) \o ToBits(cardCode, 16)
        even == SumSeq(SubSeq(data, 1, 12)) % 2
        odd == 1 - (SumSeq(SubSeq(data, 13, 24)) % 2)
    IN <<even>> \o data \o <<odd>>

\* the cards that are presented: three enrolled ones and a foreign one
Cards == {<<10, 500>>, <<10, 501>>, <<20, 600>>, <<99, 1>>}

\* the pulse trains a reader produces: card frames, a frame cut short by
\* noise and a frame with one pulse too many
Frames ==
    {Wiegand26(c[1], c[2]) : c \in Cards}
        \cup {<<1, 0, 1, 1>>, Wiegand26(10, 500) \o <<1>>}

\* bit counts other than the supported one
OtherWidths == {0, 1, 25, 27, 34, 255}

\* buffers for decoding on its own: both parity bits, facility and card
\* codes at the ends and in the middle of their ranges, and a bit beyond
\* the 26 of the frame
DecodeFacilities == {0, 1, 10, 85, 128, 255}
DecodeCards == {0, 1, 500, 21845, 32768, 65535}
DecodeBuffers ==
    {Strip(hi \o <<p>> \o ToBits(f, 8) \o ToBits(c, 16) \o <<q>>) :
        hi \in {<<>>, <<1>>}, p \in {0, 1}, f \in DecodeFacilities,
        c \in DecodeCards, q \in {0, 1}}
DecodeWidths == {WEIGAND_BITS} \cup OtherWidths

(***************************************************************************)
(* State                                                                   *)
(***************************************************************************)
VARIABLES
    state,              \* volatile uint16_t state, as the set of its set bits
    entryDataBits, entryBitCount, entryLastBit,
    exitDataBits, exitBitCount, exitLastBit,
    doorTrigger,
    entryCloseAt, exitCloseAt,          \* loop() statics: re-lock deadlines
    entryCloseTime, exitCloseTime,      \* loop() statics: time of last re-lock
    lastFacilityCode, lastCardCode,     \* loop() statics: last credential
    catInOut, catTime,                  \* presence ledger
    entrySolenoid, exitSolenoid,        \* level left on the solenoid pins
    millis,             \* millis(): monotonic milliseconds since boot
    wallOffset,         \* time(NULL) - millis()/1000, moved by time sync
    door,               \* digitalRead(PIN_DOOR_SENSOR)
    ntfyLog,            \* notifications sent by the last iteration of loop()
    entryDueMono, exitDueMono,          \* the deadlines on the monotonic clock
    readSince,          \* credentials permitted since the last re-lock
    accepted,           \* pulses a channel's handlers took since its reset
    reads,              \* cards presented to the readers so far
    ipc,                \* the statement loop() is at, when stepped by statement
    reg,                \* the register of its read-modify-write of state
    sending,            \* the pulses of a frame the entry reader has yet to send
    conf,               \* struct cfg conf, as its bytes
    eeprom,             \* the bytes EEPROM.read returns
    cpc                 \* the statement configInit is at

captureVars == <<entryDataBits, entryBitCount, entryLastBit,
                 exitDataBits, exitBitCount, exitLastBit>>
entryCapture == <<entryDataBits, entryBitCount, entryLastBit>>
exitCapture == <<exitDataBits, exitBitCount, exitLastBit>>
loopStatics == <<entryCloseAt, exitCloseAt, entryCloseTime, exitCloseTime,
                 lastFacilityCode, lastCardCode>>
ledgerVars == <<catInOut, catTime>>
pinVars == <<entrySolenoid, exitSolenoid>>
loopGhosts == <<ntfyLog, entryDueMono, exitDueMono, readSince>>
ghostVars == <<loopGhosts, accepted>>
intrVars == <<ipc, reg, sending>>
configVars == <<conf, eeprom, cpc>>

vars == <<state, captureVars, doorTrigger, loopStatics, ledgerVars, pinVars,
          millis, wallOffset, door, ghostVars, reads, intrVars, configVars>>

\* no pulse accepted on either channel
NoPulses == [d \in {EXIT, ENTRY} |-> 0]

\* the program state as one record, for the rules of loop()
Cur ==
    [state |-> state,
     entryDataBits |-> entryDataBits, entryBitCount |-> entryBitCount,
     entryLastBit |-> entryLastBit,
     exitDataBits |-> exitDataBits, exitBitCount |-> exitBitCount,
     exitLastBit |-> exitLastBit,
     entryCloseAt |-> entryCloseAt, exitCloseAt |-> exitCloseAt,
     entryCloseTime |-> entryCloseTime, exitCloseTime |-> exitCloseTime,
     lastFacilityCode |-> lastFacilityCode, lastCardCode |-> lastCardCode,
     catInOut |-> catInOut, catTime |-> catTime,
     entrySolenoid |-> entrySolenoid, exitSolenoid |-> exitSolenoid,
     millis |-> millis, wallOffset |-> wallOffset, door |-> door,
     ntfyLog |-> ntfyLog,
     entryDueMono |-> entryDueMono, exitDueMono |-> exitDueMono,
     readSince |-> readSince,
     accepted |-> accepted]

\* time(NULL), in seconds, and the monotonic clock in seconds
TimeOf(s) == s.wallOffset + (s.millis \div 1000)
MonoOf(s) == s.millis \div 1000
Time == TimeOf(Cur)
Mono == MonoOf(Cur)

(***************************************************************************)
(* Lock status of a direction, from the OPEN and LOCKED_OPEN bits          *)
(***************************************************************************)
OpenBit(dir) == IF dir = ENTRY THEN STATE_ENTRY_OPEN ELSE STATE_EXIT_OPEN
LockedOpenBit(dir) ==
    IF dir = ENTRY THEN STATE_ENTRY_LOCKED_OPEN ELSE STATE_EXIT_LOCKED_OPEN
DoneBit(dir) ==
    IF dir = ENTRY THEN STATE_ENTRY_WEIGAND_DONE ELSE STATE_EXIT_WEIGAND_DONE

Status(st, dir) ==
    IF OpenBit(dir) \notin st THEN "Locked"
    ELSE IF LockedOpenBit(dir) \in st THEN "LockedOpen" ELSE "Unlocked"

IsOpen(st, dir) == OpenBit(dir) \in st

(***************************************************************************)
(* The stored configuration.  struct cfg is followed as its bytes, scaled   *)
(* down to the magic marker, one byte each of hostname, timezone,           *)
(* cat[0].facility and cat[0].flags, and the checksum; the rules of loop()  *)
(* read the credentials from conf_cat.                                      *)
(***************************************************************************)
\* MAGIC 0xd41d8cd5, as its high and low 16 bits
MAGIC_HI == 54301
MAGIC_LO == 36053
\* sizes of uint32_t magic and uint16_t crc
CFG_MAGIC_LEN == 4
CFG_CRC_LEN == 2
\* CRC16.ccitt of the FastCRC library: polynomial and initial value
CRC_POLY == 4129
CRC_INIT == 65535
\* conf.hostname[0] of WiFi.macAddress() and conf.timezone[0] of "EST5EDT.."
MAC_CHAR == 65
TZ_CHAR == 69

\* the low w bytes of n, least significant first
RECURSIVE BytesLE(_, _)
BytesLE(n, w) ==
    IF w = 0 THEN <<>> ELSE <<n % 256>> \o BytesLE(n \div 256, w - 1)

\* a ^ b on n bits
RECURSIVE XorBits(_, _, _)
XorBits(a, b, n) ==
    IF n = 0 THEN 0
    ELSE (((a % 2) + (b % 2)) % 2) + 2 * XorBits(a \div 2, b \div 2, n - 1)

\* one round: the 16-bit value shifted left, the polynomial folded in when
\* the top bit falls out
CrcShift(crc) ==
    IF crc >= 32768 THEN XorBits((crc * 2) % 65536, CRC_POLY, 16)
    ELSE crc * 2

RECURSIVE CrcRounds(_, _)
CrcRounds(crc, n) ==
    IF n = 0 THEN crc
    ELSE LET next == CrcShift(crc)
         IN IF next \in 0..65535 THEN CrcRounds(next, n - 1) ELSE 0

RECURSIVE CrcSeq(_, _)
CrcSeq(crc, bytes) ==
    IF bytes = <<>> THEN crc
    ELSE LET next == CrcRounds(XorBits(crc, Head(bytes) * 256, 16), 8)
             rest == Tail(bytes)
         IN IF next \in 0..65535 THEN CrcSeq(next, rest) ELSE 0

ccitt(bytes) == CrcSeq(CRC_INIT, bytes)

MagicBytes ==
    BytesLE(MAGIC_LO, CFG_MAGIC_LEN \div 2)
        \o BytesLE(MAGIC_HI, CFG_MAGIC_LEN \div 2)
MagicOf(c) == SubSeq(c, 1, CFG_MAGIC_LEN)
\* the sizeof(struct cfg) - 2 bytes before the checksum
Payload(c) == SubSeq(c, 1, Len(c) - CFG_CRC_LEN)
CrcOf(c) == c[Len(c) - 1] + 256 * c[Len(c)]
BodyOf(c) == SubSeq(c, CFG_MAGIC_LEN + 1, Len(c) - CFG_CRC_LEN)

\* the test of configInit, negated
ConfigValid(c) == MagicOf(c) = MagicBytes /\ CrcOf(c) = ccitt(Payload(c))

\* configDefault: all zero but the magic marker, hostname and timezone
DefaultBody == <<MAC_CHAR, TZ_CHAR, 0, 0>>
configDefault == MagicBytes \o DefaultBody \o BytesLE(0, CFG_CRC_LEN)

\* a save that writes the record without computing its checksum
configSave_noCrc(c) == c

\* configSave: conf as written to the EEPROM, with its checksum set
configSave(c) == Payload(c) \o BytesLE(ccitt(Payload(c)), CFG_CRC_LEN)

\* a record with a cat enrolled, as a save from the web page leaves it
EnrolledBody == <<MAC_CHAR, TZ_CHAR, 10, CFG_CAT_ENTRY>>
EnrolledRecord ==
    configSave(MagicBytes \o EnrolledBody \o BytesLE(0, CFG_CRC_LEN))

\* setup() has run configInit on a valid record
ConfigLoaded ==
    /\ cpc = "done"
    /\ conf = EnrolledRecord
    /\ eeprom = EnrolledRecord

(***************************************************************************)
(* Startup: globals are zero, both solenoid pins are driven LOW by setup() *)
(***************************************************************************)
Init ==
    /\ state = {}
    /\ entryDataBits = <<>> /\ entryBitCount = 0 /\ entryLastBit = 0
    /\ exitDataBits = <<>> /\ exitBitCount = 0 /\ exitLastBit = 0
    /\ doorTrigger = 0
    /\ entryCloseAt = 0 /\ exitCloseAt = 0
    /\ entryCloseTime = 0 /\ exitCloseTime = 0
    /\ lastFacilityCode = 0 /\ lastCardCode = 0
    /\ catInOut = {}
    /\ catTime = [i \in 0..(CFG_NCATS - 1) |-> 0]
    /\ entrySolenoid = LOCK /\ exitSolenoid = LOCK
    /\ millis = 0
    /\ wallOffset = 0
    /\ door \in {0, 1}
    /\ ntfyLog = <<>>
    /\ entryDueMono = 0 /\ exitDueMono = 0
    /\ readSince = {}
    /\ accepted = NoPulses
    /\ reads = 0
    /\ ipc = "poll" /\ reg = {} /\ sending = <<>>
    /\ ConfigLoaded

(***************************************************************************)
(* Interrupt handlers.  A capture is [dataBits, bitCount, lastBit].        *)
(***************************************************************************)
Capture(d, n, l) == [dataBits |-> d, bitCount |-> n, lastBit |-> l]

\* the count of accepted pulses after k more pulses reach the handlers of
\* channel dir: they are taken unless the frame-ready bit is set
Accept(acc, st, done, dir, k) ==
    IF done \notin st THEN [acc EXCEPT ![dir] = @ + k] ELSE acc

\* ISR_ENTRY_D0 / ISR_EXIT_D0 without the test of the frame-ready bit
ISR_D0_unguarded(st, done, cap, ms) ==
    Capture(ShiftLeft(cap.dataBits),
            (cap.bitCount + 1) % BITCOUNT_MOD,
            ms + WEIGAND_TIMEOUT)

\* ISR_ENTRY_D0 / ISR_EXIT_D0 on the channel whose frame-ready bit is done
ISR_D0(st, done, cap, ms) ==
    IF done \notin st
    THEN Capture(ShiftLeft(cap.dataBits),
                 (cap.bitCount + 1) % BITCOUNT_MOD,
                 ms + WEIGAND_TIMEOUT)
    ELSE cap

\* ISR_ENTRY_D1 / ISR_EXIT_D1
ISR_D1(st, done, cap, ms) ==
    IF done \notin st
    THEN Capture(OrOne(ShiftLeft(cap.dataBits)),
                 (cap.bitCount + 1) % BITCOUNT_MOD,
                 ms + WEIGAND_TIMEOUT)
    ELSE cap

\* The handlers run once per pulse of a train while the loop does not run:
\* every call shifts its bit in, counts it modulo 256 and sets the deadline
\* anew, so the train leaves its bits shifted in, in order of arrival.
Pulses(st, done, cap, ms, bits) ==
    IF done \in st \/ bits = <<>> THEN cap
    ELSE Capture(ShiftIn(cap.dataBits, bits),
                 (cap.bitCount + Len(bits)) % BITCOUNT_MOD,
                 ms + WEIGAND_TIMEOUT)

(***************************************************************************)
(* loop(): its rules, each taking the program state s to the state after   *)
(***************************************************************************)
\* lines 287 and 289: a frame is ready when its deadline is set and passed
FrameReady(lastBit, ms) == lastBit # 0 /\ lastBit <= ms

\* lines 287-288
PollEntry(s) ==
    IF FrameReady(s.entryLastBit, s.millis)
    THEN [s EXCEPT !.state = @ \cup {STATE_ENTRY_WEIGAND_DONE}]
    ELSE s

\* lines 289-290
PollExit(s) ==
    IF FrameReady(s.exitLastBit, s.millis)
    THEN [s EXCEPT !.state = @ \cup {STATE_EXIT_WEIGAND_DONE}]
    ELSE s

\* lines 287-290
PollFrames(s) == PollExit(PollEntry(s))

\* a gate that looks at the decode result alone
Gate_decodeOnly(ok, st, oppositeOpen) == ok

\* lines 293 and 323: the frame is looked up only if it decodes and the
\* opposite direction is not open
Gate(ok, st, oppositeOpen) == ok /\ oppositeOpen \notin st

\* lines 302 and 332: the test against the last credential
MemoDiffers(lastF, lastC, facilityCode, cardCode) ==
    lastF # facilityCode /\ lastC # cardCode

\* the frame was not looked up (checkCard not called)
NotLookedUp == 2

\* what the ready frame of direction dir comes to: result is NotLookedUp or
\* checkCard's -1, 0 or 1
FrameOutcome(dir, st, bitCount, dataBits) ==
    LET d == weigandDecode(bitCount, dataBits)
        opp == IF dir = ENTRY THEN STATE_EXIT_OPEN ELSE STATE_ENTRY_OPEN
    IN IF Gate(d.ok, st, opp)
       THEN [result |-> checkCard(dir, d.facilityCode, d.cardCode),
             ok |-> d.ok,
             facilityCode |-> d.facilityCode, cardCode |-> d.cardCode]
       ELSE [result |-> NotLookedUp, ok |-> d.ok,
             facilityCode |-> d.facilityCode, cardCode |-> d.cardCode]

Ntfy(kind, facilityCode, cardCode) ==
    [kind |-> kind, facility |-> facilityCode, card |-> cardCode]

\* the actuator is driven open but the status bit is not set
entryUnlock_pinOnly(s) ==
    [s EXCEPT !.entrySolenoid = ENTRY_HOLD]

\* entryUnlock .. exitLock leave the pin at its last write; their pulse
\* delays (30, 20 and 8 + 11 ms) are below the second the deadlines count in
\* and are not added to the clock
entryUnlock(s) ==
    [s EXCEPT !.entrySolenoid = ENTRY_HOLD,
              !.state = @ \cup {STATE_ENTRY_OPEN}]

exitUnlock(s) ==
    [s EXCEPT !.exitSolenoid = EXIT_HOLD,
              !.state = @ \cup {STATE_EXIT_OPEN}]

entryLock(s) ==
    [s EXCEPT !.entrySolenoid = LOCK,
              !.state = @ \ {STATE_ENTRY_OPEN}]

\* the status bit is cleared but the actuator is not driven closed
exitLock_statusOnly(s) ==
    [s EXCEPT !.state = @ \ {STATE_EXIT_OPEN}]

exitLock(s) ==
    [s EXCEPT !.exitSolenoid = LOCK,
              !.state = @ \ {STATE_EXIT_OPEN}]

\* lines 299-313: a permitted entry
EntryPermit(s, f, c) ==
    LET differs == MemoDiffers(s.lastFacilityCode, s.lastCardCode, f, c)
        catNum == catNumber(f, c)
        u == entryUnlock(s)
    IN [u EXCEPT
          !.entryCloseAt = TimeOf(s) + DOOR_TIMEOUT_DEFAULT,
          !.entryDueMono = MonoOf(s) + DOOR_TIMEOUT_DEFAULT,
          !.ntfyLog = IF differs THEN Append(@, Ntfy("entry", f, c)) ELSE @,
          !.catTime = IF differs /\ catNum < CFG_NCATS
                      THEN [@ EXCEPT ![catNum] = TimeOf(s)] ELSE @,
          !.catInOut = IF differs /\ catNum < CFG_NCATS
                       THEN @ \cup {catNum} ELSE @,
          !.lastFacilityCode = f,
          !.lastCardCode = c,
          !.readSince = @ \cup {<<ENTRY, f, c>>}]

\* lines 329-343: a permitted exit
ExitPermit(s, f, c) ==
    LET differs == MemoDiffers(s.lastFacilityCode, s.lastCardCode, f, c)
        catNum == catNumber(f, c)
        u == exitUnlock(s)
    IN [u EXCEPT
          !.exitCloseAt = TimeOf(s) + DOOR_TIMEOUT_DEFAULT,
          !.exitDueMono = MonoOf(s) + DOOR_TIMEOUT_DEFAULT,
          !.ntfyLog = IF differs THEN Append(@, Ntfy("exit", f, c)) ELSE @,
          !.catTime = IF differs /\ catNum < CFG_NCATS
                      THEN [@ EXCEPT ![catNum] = TimeOf(s)] ELSE @,
          !.catInOut = IF differs /\ catNum < CFG_NCATS
                       THEN @ \ {catNum} ELSE @,
          !.lastFacilityCode = f,
          !.lastCardCode = c,
          !.readSince = @ \cup {<<EXIT, f, c>>}]

\* the notification of a frame that is looked up and not permitted
Refusal(s, o) ==
    IF o.result = 0
    THEN [s EXCEPT !.ntfyLog =
            Append(@, Ntfy("denied", o.facilityCode, o.cardCode))]
    ELSE IF o.result = -1
    THEN [s EXCEPT !.ntfyLog =
            Append(@, Ntfy("unknown", o.facilityCode, o.cardCode))]
    ELSE s

\* lines 293-315: the ready entry frame is decoded and decided
EntryDecide(s) ==
    LET o == FrameOutcome(ENTRY, s.state, s.entryBitCount, s.entryDataBits)
    IN IF o.result = 1
       THEN EntryPermit(s, o.facilityCode, o.cardCode)
       ELSE Refusal(s, o)

\* lines 316-319: the entry capture is reset
EntryReset(s) ==
    [s EXCEPT !.entryBitCount = 0,
              !.entryDataBits = <<>>,
              !.entryLastBit = 0,
              !.accepted[ENTRY] = 0,
              !.state = @ \ {STATE_ENTRY_WEIGAND_DONE}]

\* lines 292-320
EntryFrame(s) ==
    IF STATE_ENTRY_WEIGAND_DONE \in s.state
    THEN EntryReset(EntryDecide(s))
    ELSE s

\* lines 323-345: the ready exit frame is decoded and decided
ExitDecide(s) ==
    LET o == FrameOutcome(EXIT, s.state, s.exitBitCount, s.exitDataBits)
    IN IF o.result = 1
       THEN ExitPermit(s, o.facilityCode, o.cardCode)
       ELSE Refusal(s, o)

\* lines 346-349: the exit capture is reset
ExitReset(s) ==
    [s EXCEPT !.exitBitCount = 0,
              !.exitDataBits = <<>>,
              !.exitLastBit = 0,
              !.accepted[EXIT] = 0,
              !.state = @ \ {STATE_EXIT_WEIGAND_DONE}]

\* lines 322-350
ExitFrame(s) ==
    IF STATE_EXIT_WEIGAND_DONE \in s.state
    THEN ExitReset(ExitDecide(s))
    ELSE s

\* the deadline the spec's property asks for: never earlier than before
SwingDeadline_keep(closeAt, t) ==
    IF closeAt > t + DOOR_SWING_TIMEOUT_DEFAULT
    THEN closeAt ELSE t + DOOR_SWING_TIMEOUT_DEFAULT

\* lines 354 and 358: the deadline a consumed door trigger installs
SwingDeadline(closeAt, t) == t + DOOR_SWING_TIMEOUT_DEFAULT

\* a swing rule that sets both deadlines, open or not
DoorTriggerRule_both(s) ==
    IF STATE_DOOR_TRIGGER \in s.state
    THEN [s EXCEPT
            !.entryCloseAt = SwingDeadline(@, TimeOf(s)),
            !.entryDueMono = SwingDeadline(@, MonoOf(s)),
            !.exitCloseAt = SwingDeadline(@, TimeOf(s)),
            !.exitDueMono = SwingDeadline(@, MonoOf(s)),
            !.state = @ \ {STATE_DOOR_TRIGGER}]
    ELSE s

\* lines 351-361
DoorTriggerRule(s) ==
    IF STATE_DOOR_TRIGGER \in s.state
    THEN [s EXCEPT
            !.entryCloseAt = IF STATE_ENTRY_OPEN \in s.state
                             THEN SwingDeadline(@, TimeOf(s)) ELSE @,
            !.entryDueMono = IF STATE_ENTRY_OPEN \in s.state
                             THEN SwingDeadline(@, MonoOf(s)) ELSE @,
            !.exitCloseAt = IF STATE_EXIT_OPEN \in s.state
                            THEN SwingDeadline(@, TimeOf(s)) ELSE @,
            !.exitDueMono = IF STATE_EXIT_OPEN \in s.state
                            THEN SwingDeadline(@, MonoOf(s)) ELSE @,
            !.state = @ \ {STATE_DOOR_TRIGGER}]
    ELSE s

\* the locked-open test without the 2 s window
LockedOpenCond_anytime(st, open, lockedOpen, t, closeTime, sensor) ==
    /\ open \notin st
    /\ lockedOpen \notin st
    /\ sensor # 0

\* lines 362 and 368: the locked-open test of one direction
LockedOpenCond(st, open, lockedOpen, t, closeTime, sensor) ==
    /\ open \notin st
    /\ lockedOpen \notin st
    /\ t - closeTime < LOCKED_OPEN_WINDOW
    /\ sensor # 0

\* lines 362-367
EntryLockedOpen(s) ==
    IF LockedOpenCond(s.state, STATE_ENTRY_OPEN, STATE_ENTRY_LOCKED_OPEN,
                      TimeOf(s), s.entryCloseTime, s.door)
    THEN LET u == entryUnlock(s)
         IN [u EXCEPT
               !.ntfyLog = Append(@, Ntfy("lockedopen_entry", 0, 0)),
               !.state = @ \cup {STATE_ENTRY_LOCKED_OPEN}]
    ELSE s

\* lines 368-373
ExitLockedOpen(s) ==
    IF LockedOpenCond(s.state, STATE_EXIT_OPEN, STATE_EXIT_LOCKED_OPEN,
                      TimeOf(s), s.exitCloseTime, s.door)
    THEN LET u == exitUnlock(s)
         IN [u EXCEPT
               !.ntfyLog = Append(@, Ntfy("lockedopen_exit", 0, 0)),
               !.state = @ \cup {STATE_EXIT_LOCKED_OPEN}]
    ELSE s

\* lines 374-375: delay(500) while a direction is locked open
LockedOpenDelay(s) ==
    IF s.state \cap {STATE_ENTRY_LOCKED_OPEN, STATE_EXIT_LOCKED_OPEN} # {}
    THEN [s EXCEPT !.millis = @ + LOCKED_OPEN_DELAY]
    ELSE s

\* a re-lock test that waits for the sensor to read open
RelockCond_sensorOpen(st, open, sensor, closeAt, t) ==
    open \in st /\ sensor # 0 /\ closeAt < t

\* a re-lock test that does not read the door sensor
RelockCond_anySensor(st, open, sensor, closeAt, t) ==
    open \in st /\ closeAt < t

\* a re-lock test that waits a second longer
RelockCond_late(st, open, sensor, closeAt, t) ==
    open \in st /\ sensor = 0 /\ closeAt + 1 < t

\* lines 376 and 386: the re-lock test of one direction
RelockCond(st, open, sensor, closeAt, t) ==
    open \in st /\ sensor = 0 /\ closeAt < t

\* lines 376-385
EntryRelock(s) ==
    IF RelockCond(s.state, STATE_ENTRY_OPEN, s.door, s.entryCloseAt,
                  TimeOf(s))
    THEN LET l == entryLock(s)
         IN [l EXCEPT
               !.lastFacilityCode = 0,
               !.lastCardCode = 0,
               !.entryCloseTime = IF STATE_ENTRY_LOCKED_OPEN \notin l.state
                                  THEN TimeOf(s) ELSE @,
               !.entryCloseAt = 0,
               !.entryDueMono = 0,
               !.state = @ \ {STATE_ENTRY_OPEN, STATE_ENTRY_LOCKED_OPEN},
               !.readSince = {}]
    ELSE s

\* lines 386-395
ExitRelock(s) ==
    IF RelockCond(s.state, STATE_EXIT_OPEN, s.door, s.exitCloseAt, TimeOf(s))
    THEN LET l == exitLock(s)
         IN [l EXCEPT
               !.lastFacilityCode = 0,
               !.lastCardCode = 0,
               !.exitCloseTime = IF STATE_EXIT_LOCKED_OPEN \notin l.state
                                 THEN TimeOf(s) ELSE @,
               !.exitCloseAt = 0,
               !.exitDueMono = 0,
               !.state = @ \ {STATE_EXIT_OPEN, STATE_EXIT_LOCKED_OPEN},
               !.readSince = {}]
    ELSE s

\* the program state at the points of an iteration that starts in state s
AfterPoll(s) == PollFrames([s EXCEPT !.ntfyLog = <<>>])
AfterEntryFrame(s) == EntryFrame(AfterPoll(s))
AfterExitFrame(s) == ExitFrame(AfterEntryFrame(s))
AfterTrigger(s) == DoorTriggerRule(AfterExitFrame(s))
AfterEntryLockedOpen(s) == EntryLockedOpen(AfterTrigger(s))
AfterExitLockedOpen(s) == ExitLockedOpen(AfterEntryLockedOpen(s))
AfterDelay(s) == LockedOpenDelay(AfterExitLockedOpen(s))
AfterEntryRelock(s) == EntryRelock(AfterDelay(s))
LoopBody(s) == ExitRelock(AfterEntryRelock(s))

\* lines 322-395: the iteration from the exit frame on
LoopRest(s) ==
    ExitRelock(EntryRelock(LockedOpenDelay(ExitLockedOpen(
        EntryLockedOpen(DoorTriggerRule(ExitFrame(s)))))))

\* the loop has nothing pending: an iteration would change nothing but the
\* clock it waits on
Idle == [LoopBody(Cur) EXCEPT !.millis = millis, !.ntfyLog = ntfyLog] = Cur

(***************************************************************************)
(* Environment: readers, door sensor, clock, time synchronisation          *)
(***************************************************************************)
\* A card is presented to the entry reader while the channel is idle
EntryCardRead(bits) ==
    /\ entryBitCount = 0 /\ entryLastBit = 0
    /\ reads < MaxReads
    /\ reads' = reads + 1
    /\ LET cap == Pulses(state, STATE_ENTRY_WEIGAND_DONE,
                         Capture(entryDataBits, entryBitCount, entryLastBit),
                         millis, bits)
       IN /\ entryDataBits' = cap.dataBits
          /\ entryBitCount' = cap.bitCount
          /\ entryLastBit' = cap.lastBit
    /\ accepted' = Accept(accepted, state, STATE_ENTRY_WEIGAND_DONE,
                          ENTRY, Len(bits))
    /\ UNCHANGED <<state, exitCapture, doorTrigger, loopStatics, ledgerVars,
                   pinVars, millis, wallOffset, door, loopGhosts, intrVars>>
    /\ UNCHANGED configVars

ExitCardRead(bits) ==
    /\ exitBitCount = 0 /\ exitLastBit = 0
    /\ reads < MaxReads
    /\ reads' = reads + 1
    /\ LET cap == Pulses(state, STATE_EXIT_WEIGAND_DONE,
                         Capture(exitDataBits, exitBitCount, exitLastBit),
                         millis, bits)
       IN /\ exitDataBits' = cap.dataBits
          /\ exitBitCount' = cap.bitCount
          /\ exitLastBit' = cap.lastBit
    /\ accepted' = Accept(accepted, state, STATE_EXIT_WEIGAND_DONE,
                          EXIT, Len(bits))
    /\ UNCHANGED <<state, entryCapture, doorTrigger, loopStatics, ledgerVars,
                   pinVars, millis, wallOffset, door, loopGhosts, intrVars>>
    /\ UNCHANGED configVars

\* a door handler that also writes the entry deadline
ISR_DOOR_deadline ==
    /\ door' = 1 - door
    /\ doorTrigger' = millis
    /\ state' = state \cup {STATE_DOOR_TRIGGER}
    /\ entryCloseAt' = millis \div 1000
    /\ UNCHANGED <<exitCloseAt, entryCloseTime, exitCloseTime,
                   lastFacilityCode, lastCardCode>>
    /\ UNCHANGED <<captureVars, ledgerVars, pinVars, millis,
                   wallOffset, ghostVars, reads, intrVars>>
    /\ UNCHANGED configVars

\* The door moves: the sensor level changes and ISR_DOOR runs on the edge
ISR_DOOR ==
    /\ door' = 1 - door
    /\ doorTrigger' = millis
    /\ state' = state \cup {STATE_DOOR_TRIGGER}
    /\ UNCHANGED <<captureVars, loopStatics, ledgerVars, pinVars, millis,
                   wallOffset, ghostVars, reads, intrVars>>
    /\ UNCHANGED configVars

\* The clock reaches the next full second.  loop() runs many times a second,
\* so the second ends only once the loop has caught up with what is pending.
TickUntil(max) ==
    /\ Idle
    /\ ((millis \div 1000) + 1) * 1000 <= max
    /\ millis' = ((millis \div 1000) + 1) * 1000
    /\ UNCHANGED <<state, captureVars, doorTrigger, loopStatics, ledgerVars,
                   pinVars, wallOffset, door, ghostVars, reads, intrVars>>
    /\ UNCHANGED configVars

TickSec == TickUntil(MaxMillis)

\* time synchronisation moves the wall clock (ntpCallBack changes nothing
\* that the lock logic reads)
TimeSync(o) ==
    /\ o # wallOffset
    /\ wallOffset' = o
    /\ UNCHANGED <<state, captureVars, doorTrigger, loopStatics, ledgerVars,
                   pinVars, millis, door, ghostVars, reads, intrVars>>
    /\ UNCHANGED configVars

SyncOffsets == {0, MaxSyncOffset}

\* the program state becomes s
Becomes(s) ==
    /\ state' = s.state
    /\ entryDataBits' = s.entryDataBits
    /\ entryBitCount' = s.entryBitCount
    /\ entryLastBit' = s.entryLastBit
    /\ exitDataBits' = s.exitDataBits
    /\ exitBitCount' = s.exitBitCount
    /\ exitLastBit' = s.exitLastBit
    /\ entryCloseAt' = s.entryCloseAt
    /\ exitCloseAt' = s.exitCloseAt
    /\ entryCloseTime' = s.entryCloseTime
    /\ exitCloseTime' = s.exitCloseTime
    /\ lastFacilityCode' = s.lastFacilityCode
    /\ lastCardCode' = s.lastCardCode
    /\ catInOut' = s.catInOut
    /\ catTime' = s.catTime
    /\ entrySolenoid' = s.entrySolenoid
    /\ exitSolenoid' = s.exitSolenoid
    /\ millis' = s.millis
    /\ wallOffset' = s.wallOffset
    /\ door' = s.door
    /\ ntfyLog' = s.ntfyLog
    /\ entryDueMono' = s.entryDueMono
    /\ exitDueMono' = s.exitDueMono
    /\ readSince' = s.readSince
    /\ accepted' = s.accepted

\* one iteration of loop(), while the clock is within max
LoopUntil(max) ==
    LET s == LoopBody(Cur) IN
    /\ s.millis <= max
    /\ Becomes(s)
    /\ UNCHANGED <<doorTrigger, reads, intrVars>>
    /\ UNCHANGED configVars

Loop == LoopUntil(MaxMillis)

Next ==
    \/ Loop
    \/ \E bits \in Frames : EntryCardRead(bits)
    \/ \E bits \in Frames : ExitCardRead(bits)
    \/ ISR_DOOR
    \/ TickSec

Spec == Init /\ [][Next]_vars

\* The lock logic under time synchronisation: one enrolled card at the
\* entry reader, the door, the clock, and the wall clock set anew.
SyncCard == Wiegand26(10, 501)

NextSync ==
    \/ Loop
    \/ EntryCardRead(SyncCard)
    \/ ISR_DOOR
    \/ TickSec
    \/ \E o \in SyncOffsets : TimeSync(o)

SpecSync == Init /\ [][NextSync]_vars

\* Decoding on its own: loop() finds a frame of any width with any buffer
\* ready on the entry channel, its deadline just passed.
InitDecode ==
    /\ state = {}
    /\ entryDataBits \in DecodeBuffers
    /\ entryBitCount \in DecodeWidths
    /\ entryLastBit = WEIGAND_TIMEOUT
    /\ exitDataBits = <<>> /\ exitBitCount = 0 /\ exitLastBit = 0
    /\ doorTrigger = 0
    /\ entryCloseAt = 0 /\ exitCloseAt = 0
    /\ entryCloseTime = 0 /\ exitCloseTime = 0
    /\ lastFacilityCode = 0 /\ lastCardCode = 0
    /\ catInOut = {}
    /\ catTime = [i \in 0..(CFG_NCATS - 1) |-> 0]
    /\ entrySolenoid = LOCK /\ exitSolenoid = LOCK
    /\ millis = WEIGAND_TIMEOUT
    /\ wallOffset = 0
    /\ door = 0
    /\ ntfyLog = <<>>
    /\ entryDueMono = 0 /\ exitDueMono = 0
    /\ readSince = {}
    /\ accepted = [NoPulses EXCEPT ![ENTRY] = entryBitCount]
    /\ reads = 0
    /\ ipc = "poll" /\ reg = {} /\ sending = <<>>
    /\ ConfigLoaded

NextDecode == Loop

SpecDecode == InitDecode /\ [][NextDecode]_vars

(***************************************************************************)
(* loop() stepped by statement on the entry channel, against the entry     *)
(* reader's interrupt handlers (one call per pulse) and the door handler.  *)
(* Each |= and &= on state is a load and a store: a handler may run        *)
(* between them.  The exit channel runs the same statements on its own     *)
(* variables.                                                              *)
(***************************************************************************)
\* the frames the entry reader sends pulse by pulse: a card that may enter
\* followed by a stray pulse, a card that may only leave and a foreign card;
\* a pause within a frame cuts it short
StrayFrame == Wiegand26(10, 500) \o <<1>>
IntrFrames == {StrayFrame, Wiegand26(20, 600), Wiegand26(99, 1)}

\* The statements are followed from the state the program is in when it
\* has idled with the door closed until the locked-open window of startup
\* is over.
IntrStart == LOCKED_OPEN_WINDOW * 1000

InitIntr ==
    /\ state = {}
    /\ entryDataBits = <<>> /\ entryBitCount = 0 /\ entryLastBit = 0
    /\ exitDataBits = <<>> /\ exitBitCount = 0 /\ exitLastBit = 0
    /\ doorTrigger = 0
    /\ entryCloseAt = 0 /\ exitCloseAt = 0
    /\ entryCloseTime = 0 /\ exitCloseTime = 0
    /\ lastFacilityCode = 0 /\ lastCardCode = 0
    /\ catInOut = {}
    /\ catTime = [i \in 0..(CFG_NCATS - 1) |-> 0]
    /\ entrySolenoid = LOCK /\ exitSolenoid = LOCK
    /\ millis = IntrStart
    /\ wallOffset = 0
    /\ door = 0
    /\ ntfyLog = <<>>
    /\ entryDueMono = 0 /\ exitDueMono = 0
    /\ readSince = {}
    /\ accepted = NoPulses
    /\ reads = 0
    /\ ipc = "poll" /\ reg = {} /\ sending = <<>>
    /\ ConfigLoaded

\* the reader starts to send a frame
StartFrame(bits) ==
    /\ sending = <<>>
    /\ reads < MaxIntrFrames
    /\ reads' = reads + 1
    /\ sending' = bits
    /\ UNCHANGED <<state, captureVars, doorTrigger, loopStatics, ledgerVars,
                   pinVars, millis, wallOffset, door, ghostVars, ipc, reg>>
    /\ UNCHANGED configVars

\* Before the entry reader sends anything a cat that may leave shows its tag
\* to the exit reader, which opens the exit: the entry frame that follows
\* finds the opposite direction open.
ExitCardFirst ==
    /\ reads = 0 /\ sending = <<>>
    /\ exitBitCount = 0 /\ exitLastBit = 0
    /\ STATE_EXIT_OPEN \notin state
    /\ LET cap == Pulses(state, STATE_EXIT_WEIGAND_DONE,
                         Capture(exitDataBits, exitBitCount, exitLastBit),
                         millis, SyncCard)
       IN /\ exitDataBits' = cap.dataBits
          /\ exitBitCount' = cap.bitCount
          /\ exitLastBit' = cap.lastBit
    /\ accepted' = Accept(accepted, state, STATE_EXIT_WEIGAND_DONE,
                          EXIT, Len(SyncCard))
    /\ UNCHANGED <<state, entryCapture, doorTrigger, loopStatics, ledgerVars,
                   pinVars, millis, wallOffset, door, loopGhosts, reads,
                   intrVars>>
    /\ UNCHANGED configVars

\* a pulse on the data-0 line of the entry reader
ISR_ENTRY_D0 ==
    /\ sending # <<>> /\ Head(sending) = 0
    /\ LET cap == ISR_D0(state, STATE_ENTRY_WEIGAND_DONE,
                         Capture(entryDataBits, entryBitCount, entryLastBit),
                         millis)
       IN /\ entryDataBits' = cap.dataBits
          /\ entryBitCount' = cap.bitCount
          /\ entryLastBit' = cap.lastBit
    /\ sending' = Tail(sending)
    /\ accepted' = Accept(accepted, state, STATE_ENTRY_WEIGAND_DONE,
                          ENTRY, 1)
    /\ UNCHANGED <<state, exitCapture, doorTrigger, loopStatics, ledgerVars,
                   pinVars, millis, wallOffset, door, loopGhosts, reads,
                   ipc, reg>>
    /\ UNCHANGED configVars

\* a pulse on the data-1 line of the entry reader
ISR_ENTRY_D1 ==
    /\ sending # <<>> /\ Head(sending) = 1
    /\ LET cap == ISR_D1(state, STATE_ENTRY_WEIGAND_DONE,
                         Capture(entryDataBits, entryBitCount, entryLastBit),
                         millis)
       IN /\ entryDataBits' = cap.dataBits
          /\ entryBitCount' = cap.bitCount
          /\ entryLastBit' = cap.lastBit
    /\ sending' = Tail(sending)
    /\ accepted' = Accept(accepted, state, STATE_ENTRY_WEIGAND_DONE,
                          ENTRY, 1)
    /\ UNCHANGED <<state, exitCapture, doorTrigger, loopStatics, ledgerVars,
                   pinVars, millis, wallOffset, door, loopGhosts, reads,
                   ipc, reg>>
    /\ UNCHANGED configVars

\* the inter-bit timeout passes
TickMs ==
    /\ millis + WEIGAND_TIMEOUT <= IntrStart + MaxIntrTicks * WEIGAND_TIMEOUT
    /\ millis' = millis + WEIGAND_TIMEOUT
    /\ UNCHANGED <<state, captureVars, doorTrigger, loopStatics, ledgerVars,
                   pinVars, wallOffset, door, ghostVars, reads, intrVars>>
    /\ UNCHANGED configVars

\* line 287: the test of the entry deadline
StmtPollTest ==
    /\ ipc = "poll"
    /\ ipc' = IF FrameReady(entryLastBit, millis)
              THEN "pollLoad" ELSE "pollExit"
    /\ ntfyLog' = <<>>
    /\ UNCHANGED <<state, captureVars, doorTrigger, loopStatics, ledgerVars,
                   pinVars, millis, wallOffset, door, entryDueMono,
                   exitDueMono, readSince, accepted, reads, reg,
                   sending>>
    /\ UNCHANGED configVars

\* line 288: state |= STATE_ENTRY_WEIGAND_DONE, the load
StmtPollLoad ==
    /\ ipc = "pollLoad"
    /\ reg' = state
    /\ ipc' = "pollStore"
    /\ UNCHANGED <<state, captureVars, doorTrigger, loopStatics, ledgerVars,
                   pinVars, millis, wallOffset, door, ghostVars, reads,
                   sending>>
    /\ UNCHANGED configVars

\* line 288: the store
StmtPollStore ==
    /\ ipc = "pollStore"
    /\ state' = reg \cup {STATE_ENTRY_WEIGAND_DONE}
    /\ ipc' = "pollExit"
    /\ UNCHANGED <<captureVars, doorTrigger, loopStatics, ledgerVars,
                   pinVars, millis, wallOffset, door, ghostVars, reads,
                   reg, sending>>
    /\ UNCHANGED configVars

\* lines 289-290
StmtPollExit ==
    /\ ipc = "pollExit"
    /\ LET s == PollExit(Cur) IN Becomes(s)
    /\ ipc' = "frame"
    /\ UNCHANGED <<doorTrigger, reads, reg, sending>>
    /\ UNCHANGED configVars

\* line 292: the test of the frame-ready bit
StmtFrameTest ==
    /\ ipc = "frame"
    /\ ipc' = IF STATE_ENTRY_WEIGAND_DONE \in state THEN "decide" ELSE "rest"
    /\ UNCHANGED <<state, captureVars, doorTrigger, loopStatics, ledgerVars,
                   pinVars, millis, wallOffset, door, ghostVars, reads,
                   reg, sending>>
    /\ UNCHANGED configVars

\* lines 293-315
StmtDecide ==
    /\ ipc = "decide"
    /\ LET s == EntryDecide(Cur) IN Becomes(s)
    /\ ipc' = "resetCount"
    /\ UNCHANGED <<doorTrigger, reads, reg, sending>>
    /\ UNCHANGED configVars

\* line 316
StmtResetCount ==
    /\ ipc = "resetCount"
    /\ entryBitCount' = 0
    /\ accepted' = [accepted EXCEPT ![ENTRY] = 0]
    /\ ipc' = "resetData"
    /\ UNCHANGED <<state, entryDataBits, entryLastBit, exitCapture,
                   doorTrigger, loopStatics, ledgerVars, pinVars, millis,
                   wallOffset, door, loopGhosts, reads, reg, sending>>
    /\ UNCHANGED configVars

\* line 317
StmtResetData ==
    /\ ipc = "resetData"
    /\ entryDataBits' = <<>>
    /\ ipc' = "resetLast"
    /\ UNCHANGED <<state, entryBitCount, entryLastBit, exitCapture,
                   doorTrigger, loopStatics, ledgerVars, pinVars, millis,
                   wallOffset, door, ghostVars, reads, reg, sending>>
    /\ UNCHANGED configVars

\* line 318
StmtResetLast ==
    /\ ipc = "resetLast"
    /\ entryLastBit' = 0
    /\ ipc' = "clearLoad"
    /\ UNCHANGED <<state, entryDataBits, entryBitCount, exitCapture,
                   doorTrigger, loopStatics, ledgerVars, pinVars, millis,
                   wallOffset, door, ghostVars, reads, reg, sending>>
    /\ UNCHANGED configVars

\* line 319: state &= ~STATE_ENTRY_WEIGAND_DONE, the load
StmtClearLoad ==
    /\ ipc = "clearLoad"
    /\ reg' = state
    /\ ipc' = "clearStore"
    /\ UNCHANGED <<state, captureVars, doorTrigger, loopStatics, ledgerVars,
                   pinVars, millis, wallOffset, door, ghostVars, reads,
                   sending>>
    /\ UNCHANGED configVars

\* line 319: the store, which ends the processing of the frame
StmtClearStore ==
    /\ ipc = "clearStore"
    /\ state' = reg \ {STATE_ENTRY_WEIGAND_DONE}
    /\ ipc' = "rest"
    /\ UNCHANGED <<captureVars, doorTrigger, loopStatics, ledgerVars,
                   pinVars, millis, wallOffset, door, ghostVars, reads,
                   reg, sending>>
    /\ UNCHANGED configVars

\* lines 322-395
StmtRest ==
    /\ ipc = "rest"
    /\ LET s == LoopRest(Cur) IN s.millis <= MaxMillis /\ Becomes(s)
    /\ ipc' = "poll"
    /\ UNCHANGED <<doorTrigger, reads, reg, sending>>
    /\ UNCHANGED configVars

NextIntr ==
    \/ \E bits \in IntrFrames : StartFrame(bits)
    \/ ExitCardFirst
    \/ ISR_ENTRY_D0
    \/ ISR_ENTRY_D1
    \/ ISR_DOOR
    \/ TickMs
    \/ StmtPollTest
    \/ StmtPollLoad
    \/ StmtPollStore
    \/ StmtPollExit
    \/ StmtFrameTest
    \/ StmtDecide
    \/ StmtResetCount
    \/ StmtResetData
    \/ StmtResetLast
    \/ StmtClearLoad
    \/ StmtClearStore
    \/ StmtRest

SpecIntr == InitIntr /\ [][NextIntr]_vars

(***************************************************************************)
(* SpecBurst: the entry reader sends a train of pulses, one handler call    *)
(* per pulse, and loop() runs an iteration as a whole between two pulses.   *)
(* The trains are a card, a card with a stray pulse, and a card at the end  *)
(* of as many pulses as the bit counter counts before it starts again.      *)
(***************************************************************************)
\* n pulses, alternately on the data-1 and the data-0 line
PulseTrain(n) == [i \in 1..n |-> i % 2]

LongBurst == PulseTrain(BITCOUNT_MOD) \o Wiegand26(10, 500)
FullBurst == PulseTrain(BITCOUNT_MOD - WEIGAND_BITS) \o Wiegand26(10, 500)
Bursts == {Wiegand26(10, 500), StrayFrame, FullBurst, LongBurst}

NextBurst ==
    \/ \E bits \in Bursts : StartFrame(bits)
    \/ ISR_ENTRY_D0
    \/ ISR_ENTRY_D1
    \/ TickMs
    \/ Loop

SpecBurst == InitIntr /\ [][NextBurst]_vars

(***************************************************************************)
(* SpecLive: Spec followed for longer than the longest deadline, with one   *)
(* card and the door acting in the first seconds and the loop and the       *)
(* clock running on their own from then on.  loop() is called again as soon *)
(* as it returns, and the clock does not stop.                              *)
(***************************************************************************)
LiveEvents == reads = 0 /\ millis <= MaxLiveEvents

NextLive ==
    \/ LoopUntil(MaxLiveMillis)
    \/ TickUntil(MaxLiveMillis)
    \/ LiveEvents /\ EntryCardRead(SyncCard)
    \/ LiveEvents /\ ExitCardRead(SyncCard)
    \/ millis <= MaxLiveEvents /\ ISR_DOOR

\* when an iteration of loop() changes something, and when the clock can
\* reach the next second: the enabling conditions of the two actions
LoopCanStep ==
    LET s == LoopBody(Cur) IN s.millis <= MaxLiveMillis /\ s # Cur
TickCanStep ==
    Idle /\ ((millis \div 1000) + 1) * 1000 <= MaxLiveMillis

\* weak fairness of loop() and of the clock, written out with the enabling
\* conditions as state predicates: each of the two steps again and again
\* unless it is disabled again and again
LiveFair ==
    /\ []<>~LoopCanStep \/ []<><<LoopUntil(MaxLiveMillis)>>_vars
    /\ []<>~TickCanStep \/ []<><<TickUntil(MaxLiveMillis)>>_vars

SpecLive == Init /\ [][NextLive]_vars /\ LiveFair

(***************************************************************************)
(* SpecConfig: configInit as setup() runs it on whatever the EEPROM holds,  *)
(* before the interrupt handlers are attached; a reset runs it again.       *)
(***************************************************************************)
programVars == <<state, captureVars, doorTrigger, loopStatics, ledgerVars,
                 pinVars, millis, wallOffset, door, ghostVars, reads,
                 intrVars>>

\* what the EEPROM may hold: the magic marker right, wrong in one byte,
\* zero or erased; a body with a cat enrolled, another one, zero or erased;
\* the checksum right, off by one, zero or erased
StoredMagics ==
    {MagicBytes, [MagicBytes EXCEPT ![CFG_MAGIC_LEN] = MagicBytes[1]],
     BytesLE(0, CFG_MAGIC_LEN), <<255, 255, 255, 255>>}
StoredBodies ==
    {EnrolledBody, <<MAC_CHAR, TZ_CHAR, 20, CFG_CAT_EXIT>>,
     <<0, 0, 0, 0>>, <<255, 255, 255, 255>>}
StoredCrcs(payload) ==
    {ccitt(payload), (ccitt(payload) + 1) % 65536, 0, 65535}
StoredRecords ==
    UNION {{mb[1] \o mb[2] \o BytesLE(c, CFG_CRC_LEN) :
                c \in StoredCrcs(mb[1] \o mb[2])} :
           mb \in StoredMagics \X StoredBodies}

\* conf before configInit: zero, as every global without an initialiser
ZeroRecord == BytesLE(0, Len(EnrolledRecord))

InitConfig ==
    /\ state = {}
    /\ entryDataBits = <<>> /\ entryBitCount = 0 /\ entryLastBit = 0
    /\ exitDataBits = <<>> /\ exitBitCount = 0 /\ exitLastBit = 0
    /\ doorTrigger = 0
    /\ entryCloseAt = 0 /\ exitCloseAt = 0
    /\ entryCloseTime = 0 /\ exitCloseTime = 0
    /\ lastFacilityCode = 0 /\ lastCardCode = 0
    /\ catInOut = {}
    /\ catTime = [i \in 0..(CFG_NCATS - 1) |-> 0]
    /\ entrySolenoid = LOCK /\ exitSolenoid = LOCK
    /\ millis = 0
    /\ wallOffset = 0
    /\ door = 0
    /\ ntfyLog = <<>>
    /\ entryDueMono = 0 /\ exitDueMono = 0
    /\ readSince = {}
    /\ accepted = NoPulses
    /\ reads = 0
    /\ ipc = "poll" /\ reg = {} /\ sending = <<>>
    /\ cpc = "read"
    /\ conf = ZeroRecord
    /\ eeprom \in StoredRecords

\* lines 535-537: the EEPROM is read into conf
ConfigRead ==
    /\ cpc = "read"
    /\ conf' = eeprom
    /\ cpc' = "test"
    /\ UNCHANGED <<eeprom, programVars>>

\* line 538
ConfigTest ==
    /\ cpc = "test"
    /\ cpc' = IF ConfigValid(conf) THEN "done" ELSE "default"
    /\ UNCHANGED <<conf, eeprom, programVars>>

\* line 540
ConfigDefault ==
    /\ cpc = "default"
    /\ conf' = configDefault
    /\ cpc' = "save"
    /\ UNCHANGED <<eeprom, programVars>>

\* line 541
ConfigSave ==
    /\ cpc = "save"
    /\ conf' = configSave(conf)
    /\ eeprom' = configSave(conf)
    /\ cpc' = "done"
    /\ UNCHANGED programVars

\* a reset: setup() runs configInit again on what the EEPROM holds now
ConfigReset ==
    /\ cpc = "done"
    /\ conf' = ZeroRecord
    /\ cpc' = "read"
    /\ UNCHANGED <<eeprom, programVars>>

NextConfig ==
    \/ ConfigRead
    \/ ConfigTest
    \/ ConfigDefault
    \/ ConfigSave
    \/ ConfigReset

SpecConfig == InitConfig /\ [][NextConfig]_vars

TypeOK ==
    /\ state \subseteq {STATE_ENTRY_WEIGAND_DONE, STATE_EXIT_WEIGAND_DONE,
                        STATE_DOOR_TRIGGER, STATE_ENTRY_OPEN, STATE_EXIT_OPEN,
                        STATE_ENTRY_LOCKED_OPEN, STATE_EXIT_LOCKED_OPEN}
    /\ entryBitCount \in 0..(BITCOUNT_MOD - 1)
    /\ exitBitCount \in 0..(BITCOUNT_MOD - 1)
    /\ Len(entryDataBits) <= DATABITS_WIDTH
    /\ Len(exitDataBits) <= DATABITS_WIDTH
    /\ door \in {0, 1}
    /\ accepted \in [{EXIT, ENTRY} -> Nat]
    /\ millis \in 0..MaxLiveMillis
    /\ reads \in 0..MaxReads

(***************************************************************************)
(* The iteration of loop() that starts in the current state, seen from one *)
(* direction                                                               *)
(***************************************************************************)
Dirs == {ENTRY, EXIT}
Opposite(dir) == IF dir = ENTRY THEN EXIT ELSE ENTRY

CloseAt(s, dir) == IF dir = ENTRY THEN s.entryCloseAt ELSE s.exitCloseAt
CloseTime(s, dir) == IF dir = ENTRY THEN s.entryCloseTime ELSE s.exitCloseTime
Solenoid(s, dir) == IF dir = ENTRY THEN s.entrySolenoid ELSE s.exitSolenoid
BitCount(s, dir) == IF dir = ENTRY THEN s.entryBitCount ELSE s.exitBitCount
DataBits(s, dir) == IF dir = ENTRY THEN s.entryDataBits ELSE s.exitDataBits
LastBit(s, dir) == IF dir = ENTRY THEN s.entryLastBit ELSE s.exitLastBit
Hold(dir) == IF dir = ENTRY THEN ENTRY_HOLD ELSE EXIT_HOLD

\* the program state when the iteration reaches the frame of dir, and when
\* it has dealt with it
BeforeFrame(dir) ==
    IF dir = ENTRY THEN AfterPoll(Cur) ELSE AfterEntryFrame(Cur)
AfterFrame(dir) ==
    IF dir = ENTRY THEN AfterEntryFrame(Cur) ELSE AfterExitFrame(Cur)

\* the iteration processes a ready frame of dir
FrameProcessed(dir) == DoneBit(dir) \in BeforeFrame(dir).state

\* what that frame decodes to, and the decision on its credential, whether
\* or not the loop looks it up
Decoded(dir) ==
    weigandDecode(BitCount(BeforeFrame(dir), dir),
                  DataBits(BeforeFrame(dir), dir))
Decision(dir) ==
    IF Decoded(dir).ok
    THEN checkCard(dir, Decoded(dir).facilityCode, Decoded(dir).cardCode)
    ELSE NotLookedUp

\* the frame is looked up and permitted
PermitProcessed(dir) ==
    /\ FrameProcessed(dir)
    /\ FrameOutcome(dir, BeforeFrame(dir).state,
                    BitCount(BeforeFrame(dir), dir),
                    DataBits(BeforeFrame(dir), dir)).result = 1

\* the iteration consumes a door trigger
TriggerConsumed == STATE_DOOR_TRIGGER \in AfterExitFrame(Cur).state

(***************************************************************************)
(* Claims                                                                  *)
(***************************************************************************)

\* C1: the entry and the exit direction are never open (Unlocked or
\* LockedOpen) at the same time, in any reachable state.
C1_MutualExclusion == ~(IsOpen(state, ENTRY) /\ IsOpen(state, EXIT))

\* C1 on the locked-open path alone: after a re-lock has been recorded, a
\* direction is never locked open while the other one is Unlocked.
C1_AfterRelock ==
    \A dir \in Dirs :
        ~(/\ CloseTime(Cur, dir) > 0
          /\ Status(state, dir) = "LockedOpen"
          /\ Status(state, Opposite(dir)) = "Unlocked")

\* the swing rule meets an open direction whose deadline lies further ahead
\* than the swing timeout
SwingCase(dir) ==
    /\ TriggerConsumed
    /\ IsOpen(AfterExitFrame(Cur).state, dir)
    /\ CloseAt(AfterExitFrame(Cur), dir)
         > TimeOf(AfterExitFrame(Cur)) + DOOR_SWING_TIMEOUT_DEFAULT

\* C2 as stated: a door trigger consumed while a direction is open with a
\* deadline later than now + 3 s leaves that deadline no earlier than it was.
C2_NeverShortens ==
    \A dir \in Dirs :
        SwingCase(dir) =>
            CloseAt(AfterTrigger(Cur), dir) >= CloseAt(AfterExitFrame(Cur), dir)

\* C2 amended: a consumed door trigger sets the deadline of every open
\* direction to now + 3 s, whatever it was: a deadline that lay further
\* ahead is shortened to now + 3 s.
C2_SwingSetsDeadline ==
    \A dir \in Dirs :
        (TriggerConsumed /\ IsOpen(AfterExitFrame(Cur).state, dir)) =>
            /\ CloseAt(AfterTrigger(Cur), dir)
                 = TimeOf(AfterExitFrame(Cur)) + DOOR_SWING_TIMEOUT_DEFAULT
            /\ SwingCase(dir) =>
                 CloseAt(AfterTrigger(Cur), dir)
                   < CloseAt(AfterExitFrame(Cur), dir)

\* a trigger is about to be consumed while a direction is open with the
\* 60 s deadline of its unlock
C2_Witness ==
    \E dir \in Dirs :
        /\ SwingCase(dir)
        /\ CloseAt(AfterExitFrame(Cur), dir)
             = TimeOf(AfterExitFrame(Cur)) + DOOR_TIMEOUT_DEFAULT
        /\ CloseAt(LoopBody(Cur), dir)
             = TimeOf(AfterExitFrame(Cur)) + DOOR_SWING_TIMEOUT_DEFAULT

\* the fields of the program state that a refused frame must leave alone
LockFields(s) ==
    <<Status(s.state, ENTRY), Status(s.state, EXIT),
      s.entryCloseAt, s.exitCloseAt,
      s.lastFacilityCode, s.lastCardCode,
      s.catInOut, s.catTime>>

\* the notifications that processing the frame of dir sends
FrameNtfy(dir) ==
    SubSeq(AfterFrame(dir).ntfyLog,
           Len(BeforeFrame(dir).ntfyLog) + 1, Len(AfterFrame(dir).ntfyLog))

\* C3: whenever a processed 26-bit frame decodes to a credential that is
\* unknown or denied, a notification is sent and the lock status of both
\* directions, both deadlines, the memo and the ledger are unchanged, also
\* when the opposite direction is open.
C3_RefusalNotifies ==
    \A dir \in Dirs :
        (FrameProcessed(dir) /\ Decision(dir) \in {-1, 0}) =>
            /\ Len(FrameNtfy(dir)) = 1
            /\ FrameNtfy(dir)[1].kind
                 = (IF Decision(dir) = 0 THEN "denied" ELSE "unknown")
            /\ LockFields(AfterFrame(dir)) = LockFields(BeforeFrame(dir))

\* a frame of a permitted credential is processed while the opposite
\* direction is Locked
PermitCase(dir) ==
    /\ FrameProcessed(dir)
    /\ Decision(dir) = 1
    /\ Status(BeforeFrame(dir).state, Opposite(dir)) = "Locked"

\* C4 as stated: after the iteration that processes a permitted frame while
\* the opposite direction is Locked, the direction is Unlocked with
\* deadline now + 60 s and the opposite direction's status and deadline are
\* unchanged.
C4_PermitUnlocks ==
    \A dir \in Dirs :
        PermitCase(dir) =>
            /\ Status(LoopBody(Cur).state, dir) = "Unlocked"
            /\ CloseAt(LoopBody(Cur), dir)
                 = TimeOf(BeforeFrame(dir)) + DOOR_TIMEOUT_DEFAULT
            /\ Status(LoopBody(Cur).state, Opposite(dir))
                 = Status(BeforeFrame(dir).state, Opposite(dir))
            /\ CloseAt(LoopBody(Cur), Opposite(dir))
                 = CloseAt(BeforeFrame(dir), Opposite(dir))

\* C4 amended: processing the permitted frame drives the actuator open and
\* leaves the direction open with deadline now + 60 s (Unlocked, or still
\* LockedOpen if it was LockedOpen) and the opposite direction's status and
\* deadline as they were; by the end of the iteration the direction is still
\* open, a door trigger pending in the same iteration has replaced the
\* deadline by now + 3 s, and the opposite direction is Locked or has been
\* made LockedOpen by the locked-open rule.
C4_PermitOpens ==
    \A dir \in Dirs :
        PermitCase(dir) =>
            /\ Status(AfterFrame(dir).state, dir)
                 = (IF Status(BeforeFrame(dir).state, dir) = "LockedOpen"
                    THEN "LockedOpen" ELSE "Unlocked")
            /\ Solenoid(AfterFrame(dir), dir) = Hold(dir)
            /\ CloseAt(AfterFrame(dir), dir)
                 = TimeOf(BeforeFrame(dir)) + DOOR_TIMEOUT_DEFAULT
            /\ Status(AfterFrame(dir).state, Opposite(dir)) = "Locked"
            /\ CloseAt(AfterFrame(dir), Opposite(dir))
                 = CloseAt(BeforeFrame(dir), Opposite(dir))
            /\ Status(LoopBody(Cur).state, dir)
                 = Status(AfterFrame(dir).state, dir)
            /\ CloseAt(LoopBody(Cur), dir)
                 = TimeOf(BeforeFrame(dir))
                     + (IF TriggerConsumed THEN DOOR_SWING_TIMEOUT_DEFAULT
                        ELSE DOOR_TIMEOUT_DEFAULT)
            /\ Status(LoopBody(Cur).state, Opposite(dir))
                 \in {"Locked", "LockedOpen"}
            /\ CloseAt(LoopBody(Cur), Opposite(dir))
                 = CloseAt(BeforeFrame(dir), Opposite(dir))

\* a permitted frame is about to be processed with the opposite direction
\* Locked, and the iteration leaves the direction Unlocked for 60 s
C4_Witness ==
    \E dir \in Dirs :
        /\ PermitCase(dir)
        /\ Status(state, dir) = "Locked"
        /\ Status(LoopBody(Cur).state, dir) = "Unlocked"
        /\ CloseAt(LoopBody(Cur), dir) = Time + DOOR_TIMEOUT_DEFAULT
        /\ Status(LoopBody(Cur).state, Opposite(dir)) = "Locked"

\* the credential of the permitted frame of dir, as the ledger knows it
PermitCred(dir) == <<dir, Decoded(dir).facilityCode, Decoded(dir).cardCode>>
PermitSlot(dir) == catNumber(Decoded(dir).facilityCode, Decoded(dir).cardCode)

\* processing the frame of dir updates the ledger slot of its credential
LedgerUpdated(dir) ==
    /\ AfterFrame(dir).catTime[PermitSlot(dir)] = TimeOf(BeforeFrame(dir))
    /\ (PermitSlot(dir) \in AfterFrame(dir).catInOut) <=> (dir = ENTRY)
    /\ \A i \in 0..(CFG_NCATS - 1) \ {PermitSlot(dir)} :
          /\ AfterFrame(dir).catTime[i] = BeforeFrame(dir).catTime[i]
          /\ (i \in AfterFrame(dir).catInOut)
               <=> (i \in BeforeFrame(dir).catInOut)

LedgerUnchanged(dir) ==
    /\ AfterFrame(dir).catTime = BeforeFrame(dir).catTime
    /\ AfterFrame(dir).catInOut = BeforeFrame(dir).catInOut

\* C5: of the reads of one permitted credential on a channel with no re-lock
\* of either direction between them, the first sends one notification and
\* updates the ledger slot once, and the later reads send nothing and leave
\* the ledger alone.
C5_DuplicateSuppression ==
    \A dir \in Dirs :
        PermitProcessed(dir) =>
            IF PermitCred(dir) \in BeforeFrame(dir).readSince
            THEN FrameNtfy(dir) = <<>> /\ LedgerUnchanged(dir)
            ELSE Len(FrameNtfy(dir)) = 1 /\ LedgerUpdated(dir)

\* a direction is Locked and not LockedOpen, the sensor reads open and the
\* last re-lock of the direction is less than 2 s ago
LockedOpenCase(dir) ==
    /\ Status(state, dir) = "Locked"
    /\ LockedOpenBit(dir) \notin state
    /\ door = 1
    /\ Time - CloseTime(Cur, dir) < LOCKED_OPEN_WINDOW

\* the iteration ends with dir LockedOpen, driven open and notified
EndsLockedOpen(dir) ==
    /\ Status(LoopBody(Cur).state, dir) = "LockedOpen"
    /\ Solenoid(LoopBody(Cur), dir) = Hold(dir)
    /\ \E i \in 1..Len(LoopBody(Cur).ntfyLog) :
          LoopBody(Cur).ntfyLog[i].kind
            = (IF dir = ENTRY THEN "lockedopen_entry" ELSE "lockedopen_exit")

\* the direction is Locked, the sensor reads open, the last re-lock is 2 s
\* or more ago and the iteration processes no permitted frame for it
WindowOverCase(dir) ==
    /\ Status(state, dir) = "Locked"
    /\ door = 1
    /\ Time - CloseTime(Cur, dir) >= LOCKED_OPEN_WINDOW
    /\ ~PermitProcessed(dir)

Discarded(b, dir) ==
    IF dir = ENTRY
    THEN [b EXCEPT !.entryBitCount = 0, !.entryDataBits = <<>>,
                   !.entryLastBit = 0, !.accepted[ENTRY] = 0,
                   !.state = @ \ {STATE_ENTRY_WEIGAND_DONE}]
    ELSE [b EXCEPT !.exitBitCount = 0, !.exitDataBits = <<>>,
                   !.exitLastBit = 0, !.accepted[EXIT] = 0,
                   !.state = @ \ {STATE_EXIT_WEIGAND_DONE}]

\* C8: for every bit count other than 26 and every buffer, decode fails and
\* writes no facility or card code, and the loop then only resets the
\* capture: no lock or unlock, no change of a deadline, the memo or the
\* ledger, and no notification.
C8_UnsupportedWidth ==
    \A dir \in Dirs :
        /\ \A n \in (OtherWidths \cup {BitCount(Cur, dir)}) \ {WEIGAND_BITS} :
              weigandDecode(n, DataBits(Cur, dir))
                = [ok |-> FALSE, facilityCode |-> Unwritten,
                   cardCode |-> Unwritten]
        /\ (FrameProcessed(dir)
              /\ BitCount(BeforeFrame(dir), dir) # WEIGAND_BITS) =>
              AfterFrame(dir) = Discarded(BeforeFrame(dir), dir)

\* a frame of another width than 26 is about to be processed
C8_Witness ==
    \E dir \in Dirs :
        /\ FrameProcessed(dir)
        /\ BitCount(BeforeFrame(dir), dir) \notin {0, WEIGAND_BITS}
        /\ DataBits(BeforeFrame(dir), dir) # <<>>
        /\ LoopBody(Cur).ntfyLog = <<>>

\* the deadline of dir on the monotonic clock, and the locked-open window
\* of a direction that has been re-locked
DueMono(s, dir) == IF dir = ENTRY THEN s.entryDueMono ELSE s.exitDueMono
InWindow(dir) ==
    /\ CloseTime(Cur, dir) # 0
    /\ Time - CloseTime(Cur, dir) < LOCKED_OPEN_WINDOW

\* a step that re-locks an Unlocked direction does so when the monotonic
\* clock has reached the deadline; a step that sets the wall clock opens no
\* locked-open window
C10_Step ==
    \A dir \in Dirs :
        /\ (Status(state, dir) = "Unlocked" /\ Status(state', dir) = "Locked")
              => Mono' >= DueMono(Cur, dir)
        /\ (wallOffset' # wallOffset /\ InWindow(dir)') => InWindow(dir)

\* C10: while time synchronisation moves the wall clock forward or backward,
\* an Unlocked direction is not re-locked before DOOR_TIMEOUT (or the swing
\* timeout after a trigger) of monotonic time has passed since the deadline
\* was set, and a jump alone never makes the locked-open window (less than
\* 2 s since the last re-lock) become true.
C10_DeadlinesMonotonic == [][C10_Step]_vars

\* the 26 low bits of buffer d in order of arrival, first received first
Low26(d) == [k \in 1..WEIGAND_BITS |-> BitAt(d, WEIGAND_BITS - k)]

\* C9 as stated: for a bit count of 26 and every buffer, decode succeeds
\* with facilityCode = bits 23..16 and cardCode = bits 16..1 of the buffer,
\* bit 1 the least significant.
C9_FieldLayout ==
    \A dir \in Dirs :
        BitCount(Cur, dir) = WEIGAND_BITS =>
            /\ Decoded(dir).ok
            /\ Decoded(dir).facilityCode = Field(DataBits(Cur, dir), 15, 22)
            /\ Decoded(dir).cardCode = Field(DataBits(Cur, dir), 0, 15)

\* C9 amended: decode succeeds with facilityCode = bits 25..18 and
\* cardCode = bits 17..2 of the buffer, bit 1 the least significant: of the
\* 26 bits in order of arrival the first is skipped, the next 8 are the
\* facility code, the next 16 the card code and the last is skipped; bits
\* above the 26th are ignored.
C9_WiegandLayout ==
    \A dir \in Dirs :
        BitCount(Cur, dir) = WEIGAND_BITS =>
            /\ Decoded(dir).ok
            /\ Decoded(dir).facilityCode \in 0..255
            /\ Decoded(dir).cardCode \in 0..65535
            /\ ToBits(Decoded(dir).facilityCode, 8)
                 = SubSeq(Low26(DataBits(Cur, dir)), 2, 9)
            /\ ToBits(Decoded(dir).cardCode, 16)
                 = SubSeq(Low26(DataBits(Cur, dir)), 10, 25)

\* the loop is about to decode a 26-bit frame with a 27th bit above it to
\* facility 85, card 21845 and report the credential as unknown
C9_Witness ==
    /\ entryBitCount = WEIGAND_BITS
    /\ Len(entryDataBits) = WEIGAND_BITS + 1
    /\ BitAt(entryDataBits, 0) = 1
    /\ LoopBody(Cur).ntfyLog = <<Ntfy("unknown", 85, 21845)>>

\* the capture state of dir is empty and its frame-ready flag is clear
CaptureEmpty(s, dir) ==
    /\ DataBits(s, dir) = <<>>
    /\ BitCount(s, dir) = 0
    /\ LastBit(s, dir) = 0
    /\ DoneBit(dir) \notin s.state

\* C7: when the loop finishes processing a frame-ready channel, whatever the
\* outcome, the channel's capture state is empty (buffer 0, count 0, no
\* deadline) and its frame-ready flag is clear at the moment processing ends,
\* for every interleaving of the channel's two bit-edge handlers with the
\* loop's statements; resetting an empty capture state leaves it empty.
\* The entry channel is followed statement by statement with its handlers
\* in between, the exit channel through the rest of the iteration.
C7_Step ==
    /\ (ipc = "clearStore" /\ ipc' = "rest") =>
           /\ entryDataBits' = <<>>
           /\ entryBitCount' = 0
           /\ entryLastBit' = 0
           /\ STATE_ENTRY_WEIGAND_DONE \notin state'
    /\ (ipc = "rest" /\ ipc' = "poll"
            /\ STATE_EXIT_WEIGAND_DONE \in state) =>
           /\ exitDataBits' = <<>>
           /\ exitBitCount' = 0
           /\ exitLastBit' = 0
           /\ STATE_EXIT_WEIGAND_DONE \notin state'
    /\ CaptureEmpty(EntryReset(Cur), ENTRY)
    /\ CaptureEmpty(ExitReset(Cur), EXIT)
    /\ EntryReset(EntryReset(Cur)) = EntryReset(Cur)
    /\ ExitReset(ExitReset(Cur)) = ExitReset(Cur)

C7_CaptureReset == [][C7_Step]_vars

\* the loop has just finished processing the 26 bits of the card that may
\* enter and has opened the entry, the stray pulse after them has come while
\* the frame was being processed and has left no trace
C7_Witness ==
    /\ ipc = "rest"
    /\ reads = 1 /\ sending = <<>>
    /\ lastFacilityCode = 10 /\ lastCardCode = 500
    /\ STATE_ENTRY_OPEN \in state
    /\ entrySolenoid = ENTRY_HOLD
    /\ CaptureEmpty(Cur, ENTRY)

\* the slots that hold the pair, the flag of a direction, and the decision
\* as the lowest of those slots gives it
MatchingSlots(f, c) ==
    {i \in 0..(CFG_NCATS - 1) :
        conf_cat[i].facility = f /\ conf_cat[i].id = c}
DirFlag(dir) == IF dir = ENTRY THEN CFG_CAT_ENTRY ELSE CFG_CAT_EXIT
LowestSlot(f, c) ==
    CHOOSE i \in MatchingSlots(f, c) : \A j \in MatchingSlots(f, c) : i <= j
FirstSlotDecision(dir, f, c) ==
    IF MatchingSlots(f, c) = {} THEN -1
    ELSE IF DirFlag(dir) \in conf_cat[LowestSlot(f, c)].flags THEN 1 ELSE 0

\* credentials looked up beside the ones the readers send: enrolled ones,
\* the blank pair and pairs that share one code with an enrolled one
LookupFacilities == {0, 10, 20, 99}
LookupCards == {0, 1, 500, 501, 600}

\* C11: checkCard returns Unknown (-1) iff no slot 0..6 holds the pair;
\* otherwise the lowest matching slot alone decides: Permit (1) iff its flag
\* for the direction is set, else Deny (0), also when a later slot holds the
\* same pair with another flag.  The loop acts on that decision when it
\* looks the frame up.
C11_AccessDecision ==
    /\ \A dir \in Dirs, f \in LookupFacilities, c \in LookupCards :
          /\ checkCard(dir, f, c) = FirstSlotDecision(dir, f, c)
          /\ (checkCard(dir, f, c) = -1) <=> (MatchingSlots(f, c) = {})
    /\ \A dir \in Dirs :
          (FrameProcessed(dir) /\ Decoded(dir).ok) =>
              LET f == Decoded(dir).facilityCode
                  c == Decoded(dir).cardCode
                  o == FrameOutcome(dir, BeforeFrame(dir).state,
                                    BitCount(BeforeFrame(dir), dir),
                                    DataBits(BeforeFrame(dir), dir))
              IN /\ Decision(dir) = FirstSlotDecision(dir, f, c)
                 /\ o.result \in {NotLookedUp, FirstSlotDecision(dir, f, c)}
                 /\ (o.result = 1) =>
                        OpenBit(dir) \in AfterFrame(dir).state
                 /\ (o.result = 0) =>
                        FrameNtfy(dir) = <<Ntfy("denied", f, c)>>
                 /\ (o.result = -1) =>
                        FrameNtfy(dir) = <<Ntfy("unknown", f, c)>>

\* the exit reader's frame of a pair that slot 0 holds without and slot 3
\* with the exit flag is about to be looked up and denied
C11_Witness ==
    /\ FrameProcessed(EXIT)
    /\ Decoded(EXIT).ok
    /\ MatchingSlots(Decoded(EXIT).facilityCode, Decoded(EXIT).cardCode)
         = {0, 3}
    /\ CFG_CAT_EXIT \in conf_cat[3].flags
    /\ CFG_CAT_EXIT \notin conf_cat[0].flags
    /\ AfterFrame(EXIT).ntfyLog
         = <<Ntfy("denied", Decoded(EXIT).facilityCode,
                  Decoded(EXIT).cardCode)>>
    /\ Status(AfterFrame(EXIT).state, EXIT) = "Locked"

\* the record configInit leaves when it does not keep the stored one
DefaultSaved == configSave(configDefault)

\* C12: when configInit returns, whatever the EEPROM held, conf has the
\* magic marker, and the EEPROM holds a record with the marker and a
\* checksum right for the bytes before it, byte for byte equal to conf:
\* either the stored record was valid and is loaded unchanged, or the
\* default with blank credentials is in conf and stored.
C12_Step ==
    /\ (cpc # "done" /\ cpc' = "done") =>
          /\ MagicOf(conf') = MagicBytes
          /\ ConfigValid(eeprom')
          /\ eeprom' = conf'
    /\ (cpc = "test" /\ cpc' = "done") =>
          /\ ConfigValid(eeprom)
          /\ eeprom' = eeprom /\ conf' = eeprom
    /\ (cpc = "test" /\ cpc' # "done") => ~ConfigValid(eeprom)
    /\ (cpc = "save" /\ cpc' = "done") =>
          /\ conf' = DefaultSaved
          /\ BodyOf(conf') = DefaultBody
          /\ DefaultBody[3] = 0 /\ DefaultBody[4] = 0
    /\ cpc \in {"read", "test", "default"} => eeprom' = eeprom

C12_ConfigAutoHeal == [][C12_Step]_vars

\* configInit has returned with the default in conf and in the EEPROM
C12_Witness ==
    /\ cpc = "done"
    /\ conf = DefaultSaved
    /\ eeprom = DefaultSaved
    /\ ConfigValid(eeprom)
    /\ conf # EnrolledRecord

\* the credential of the permitted frame differs from the memo in one code
\* at least
DiffersFromMemo(dir) ==
    \/ BeforeFrame(dir).lastFacilityCode # Decoded(dir).facilityCode
    \/ BeforeFrame(dir).lastCardCode # Decoded(dir).cardCode

\* C13: whenever a permitted frame unlocks a direction and its credential
\* differs from the memo in the facility code or in the card code (the memo
\* being empty at startup and after a re-lock), one notification is sent,
\* the ledger bit of the credential's slot is set to in for entry or out for
\* exit with its timestamp updated, and the memo then holds the credential.
C13_LedgerOnDiffering ==
    \A dir \in Dirs :
        (PermitProcessed(dir) /\ DiffersFromMemo(dir)) =>
            /\ Len(FrameNtfy(dir)) = 1
            /\ LedgerUpdated(dir)
            /\ AfterFrame(dir).lastFacilityCode = Decoded(dir).facilityCode
            /\ AfterFrame(dir).lastCardCode = Decoded(dir).cardCode

\* a step that takes a set door-triggered flag away is the loop's
\* door-trigger rule (lines 351-361, within the rest of the iteration)
C14_Step ==
    (STATE_DOOR_TRIGGER \in state /\ STATE_DOOR_TRIGGER \notin state') =>
        (ipc = "rest" /\ ipc' = "poll")

\* C14: once ISR_DOOR has set the door-triggered flag, the flag stays set
\* until the loop's door-trigger rule consumes it, wherever the interrupt
\* preempts the loop, also between the load and the store of the loop's own
\* read-modify-write updates of state.
C14_TriggerNeverLost == [][C14_Step]_vars

\* the program state before and after the re-lock rule of dir
BeforeRelock(dir) ==
    IF dir = ENTRY THEN AfterDelay(Cur) ELSE AfterEntryRelock(Cur)
AfterRelock(dir) ==
    IF dir = ENTRY THEN AfterEntryRelock(Cur) ELSE LoopBody(Cur)

\* in state b the direction is open, the sensor reads closed and the
\* deadline has passed
RelockDue(b, dir) ==
    /\ IsOpen(b.state, dir)
    /\ b.door = 0
    /\ CloseAt(b, dir) < TimeOf(b)

\* state a shows dir re-locked from state b at time t
Relocked(b, a, dir, t) ==
    /\ Status(a.state, dir) = "Locked"
    /\ LockedOpenBit(dir) \notin a.state
    /\ Solenoid(a, dir) = LOCK
    /\ a.lastFacilityCode = 0 /\ a.lastCardCode = 0
    /\ CloseAt(a, dir) = 0
    /\ CloseTime(a, dir)
         = (IF Status(b.state, dir) = "Unlocked" THEN t
            ELSE CloseTime(b, dir))

LockedBetween(b, a, dir) ==
    \/ IsOpen(b.state, dir) /\ ~IsOpen(a.state, dir)
    \/ Solenoid(b, dir) # LOCK /\ Solenoid(a, dir) = LOCK

\* C16: a direction goes from Unlocked or LockedOpen to Locked in an
\* iteration only if the re-lock rule reads the sensor closed and finds the
\* deadline passed, and the rules before and after the direction's re-lock
\* rule neither lock it nor drive its actuator closed.
C16_NoPrematureRelock ==
    \A dir \in Dirs :
        /\ LockedBetween(Cur, LoopBody(Cur), dir) =>
              /\ BeforeRelock(dir).door = 0
              /\ CloseAt(BeforeRelock(dir), dir) < TimeOf(BeforeRelock(dir))
        /\ LockedBetween(BeforeRelock(dir), AfterRelock(dir), dir) =>
              RelockDue(BeforeRelock(dir), dir)
        /\ ~LockedBetween(Cur, BeforeRelock(dir), dir)
        /\ ~LockedBetween(AfterRelock(dir), LoopBody(Cur), dir)

\* a direction is open with its deadline passed while the sensor reads
\* open: it stays open with the actuator held
C16_Witness ==
    \E dir \in Dirs :
        /\ IsOpen(state, dir)
        /\ CloseAt(Cur, dir) > 0
        /\ door = 1
        /\ CloseAt(Cur, dir) < TimeOf(BeforeRelock(dir))
        /\ IsOpen(LoopBody(Cur).state, dir)
        /\ Solenoid(LoopBody(Cur), dir) = Hold(dir)

\* a direction is open with the sensor closed when its deadline is reached
\* but not passed: it stays open with the actuator held
C16_WitnessDeadline ==
    \E dir \in Dirs :
        /\ IsOpen(state, dir)
        /\ CloseAt(Cur, dir) > 0
        /\ door = 0
        /\ CloseAt(BeforeRelock(dir), dir) = CloseAt(Cur, dir)
        /\ CloseAt(Cur, dir) = TimeOf(BeforeRelock(dir))
        /\ IsOpen(LoopBody(Cur).state, dir)
        /\ Solenoid(LoopBody(Cur), dir) = Hold(dir)

\* the iteration processes a ready frame of dir while the opposite
\* direction is open
GatedCase(dir) ==
    /\ FrameProcessed(dir)
    /\ IsOpen(BeforeFrame(dir).state, Opposite(dir))

\* C17: processing a frame of a channel while the opposite direction is
\* Unlocked or LockedOpen leaves that channel's direction as it was: its
\* status and actuator, its deadline, the memo and the ledger do not change,
\* whatever the frame carries.
C17_GatedByOpposite ==
    \A dir \in Dirs :
        GatedCase(dir) =>
            /\ Status(AfterFrame(dir).state, dir)
                 = Status(BeforeFrame(dir).state, dir)
            /\ Solenoid(AfterFrame(dir), dir) = Solenoid(BeforeFrame(dir), dir)
            /\ CloseAt(AfterFrame(dir), dir) = CloseAt(BeforeFrame(dir), dir)
            /\ AfterFrame(dir).lastFacilityCode
                 = BeforeFrame(dir).lastFacilityCode
            /\ AfterFrame(dir).lastCardCode = BeforeFrame(dir).lastCardCode
            /\ LedgerUnchanged(dir)

\* a frame whose credential is enrolled for its direction is processed
\* while that direction is Locked and the opposite one is open: the
\* direction stays Locked
C17_Witness ==
    \E dir \in Dirs :
        /\ GatedCase(dir)
        /\ Decision(dir) = 1
        /\ Status(BeforeFrame(dir).state, dir) = "Locked"
        /\ Status(AfterFrame(dir).state, dir) = "Locked"
        /\ Solenoid(AfterFrame(dir), dir) = LOCK

\* the deadline of dir that the swing rule leaves when it starts in state b
SwingCloseAt(b, dir) ==
    IF IsOpen(b.state, dir)
    THEN TimeOf(b) + DOOR_SWING_TIMEOUT_DEFAULT
    ELSE CloseAt(b, dir)

\* state b with the trigger flag cleared and the deadlines of the open
\* directions, and their monotonic counterparts, taken from state a
SwingFrame(b, a) ==
    [b EXCEPT !.state = @ \ {STATE_DOOR_TRIGGER},
              !.entryCloseAt = SwingCloseAt(b, ENTRY),
              !.exitCloseAt = SwingCloseAt(b, EXIT),
              !.entryDueMono = IF IsOpen(b.state, ENTRY)
                               THEN a.entryDueMono ELSE @,
              !.exitDueMono = IF IsOpen(b.state, EXIT)
                              THEN a.exitDueMono ELSE @]

\* C18: consuming a door trigger clears the flag and sets the deadline of
\* each open direction to now + 3 s, and changes nothing else: no status,
\* no actuator, not the memo, not the ledger, not the deadline of a Locked
\* direction; without a pending trigger the rule changes nothing.
C18_SwingFrame ==
    /\ TriggerConsumed =>
          /\ AfterTrigger(Cur)
               = SwingFrame(AfterExitFrame(Cur), AfterTrigger(Cur))
          /\ \A dir \in Dirs :
                /\ Status(AfterTrigger(Cur).state, dir)
                     = Status(AfterExitFrame(Cur).state, dir)
                /\ Solenoid(AfterTrigger(Cur), dir)
                     = Solenoid(AfterExitFrame(Cur), dir)
                /\ CloseTime(AfterTrigger(Cur), dir)
                     = CloseTime(AfterExitFrame(Cur), dir)
                /\ CloseAt(AfterTrigger(Cur), dir)
                     = SwingCloseAt(AfterExitFrame(Cur), dir)
          /\ AfterTrigger(Cur).lastFacilityCode
               = AfterExitFrame(Cur).lastFacilityCode
          /\ AfterTrigger(Cur).lastCardCode
               = AfterExitFrame(Cur).lastCardCode
          /\ AfterTrigger(Cur).catInOut = AfterExitFrame(Cur).catInOut
          /\ AfterTrigger(Cur).catTime = AfterExitFrame(Cur).catTime
          /\ AfterTrigger(Cur).ntfyLog = AfterExitFrame(Cur).ntfyLog
          /\ STATE_DOOR_TRIGGER \notin AfterTrigger(Cur).state
    /\ ~TriggerConsumed => AfterTrigger(Cur) = AfterExitFrame(Cur)

\* a trigger is consumed with one direction open and the other Locked: the
\* open one's deadline moves to now + 3 s, the Locked one's stays 0
C18_Witness ==
    \E dir \in Dirs :
        /\ TriggerConsumed
        /\ IsOpen(AfterExitFrame(Cur).state, dir)
        /\ ~IsOpen(AfterExitFrame(Cur).state, Opposite(dir))
        /\ CloseAt(AfterExitFrame(Cur), dir)
             # TimeOf(AfterExitFrame(Cur)) + DOOR_SWING_TIMEOUT_DEFAULT
        /\ CloseAt(AfterTrigger(Cur), dir)
             = TimeOf(AfterExitFrame(Cur)) + DOOR_SWING_TIMEOUT_DEFAULT
        /\ CloseAt(AfterTrigger(Cur), Opposite(dir)) = 0

\* a trigger is consumed with both directions Locked: only the flag changes
C18_WitnessLocked ==
    /\ TriggerConsumed
    /\ \A dir \in Dirs : ~IsOpen(AfterExitFrame(Cur).state, dir)
    /\ AfterTrigger(Cur)
         = [AfterExitFrame(Cur) EXCEPT !.state = @ \ {STATE_DOOR_TRIGGER}]

\* what no interrupt handler writes: the re-lock deadlines and the other
\* statics of loop(), the ledger, the solenoid pins, and where loop() is
LoopOwned == <<loopStatics, ledgerVars, pinVars, ipc, reg>>

\* C19, one step: a bit-edge handler of a channel changes nothing but that
\* channel's capture; the door handler changes nothing but the trigger
\* timestamp and the trigger flag; none changes a lock status bit, a
\* deadline, the memo, the ledger or a solenoid pin.
C19_Step ==
    /\ (ISR_ENTRY_D0 \/ ISR_ENTRY_D1) =>
          /\ UNCHANGED <<state, exitCapture, doorTrigger>>
          /\ UNCHANGED LoopOwned
    /\ ExitCardFirst =>
          /\ UNCHANGED <<state, entryCapture, doorTrigger>>
          /\ UNCHANGED LoopOwned
    /\ ISR_DOOR =>
          /\ state' = state \cup {STATE_DOOR_TRIGGER}
          /\ doorTrigger' = millis
          /\ UNCHANGED captureVars
          /\ UNCHANGED LoopOwned

\* C19: every step of an interrupt handler stays within its frame.
C19_HandlerFrames == [][C19_Step]_vars

\* the handlers have run while the exit was open and loop() was between two
\* statements: entry pulses are captured, the door trigger is stamped and
\* flagged, and the exit is still open with its deadline and its pin held
C19_Witness ==
    /\ entryBitCount > 0 /\ sending # <<>>
    /\ STATE_DOOR_TRIGGER \in state /\ doorTrigger = millis
    /\ ipc # "poll"
    /\ STATE_EXIT_OPEN \in state
    /\ exitCloseAt > 0
    /\ exitSolenoid = EXIT_HOLD

\* C20: between iterations of the loop a direction is open (Unlocked or
\* LockedOpen) exactly when its actuator was last driven open and is held
\* there, the locked-open mark is set only on an open direction, and the
\* deadline of a Locked direction is 0.
C20_StatusMatchesActuator ==
    \A dir \in Dirs :
        /\ IsOpen(state, dir) <=> (Solenoid(Cur, dir) = Hold(dir))
        /\ ~IsOpen(state, dir) <=> (Solenoid(Cur, dir) = LOCK)
        /\ LockedOpenBit(dir) \in state => IsOpen(state, dir)
        /\ ~IsOpen(state, dir) => CloseAt(Cur, dir) = 0

\* a direction has been re-locked from Unlocked (the time of the re-lock is
\* recorded, the pin is at LOCK, the deadline is 0) and the other one is
\* open with its actuator held and a deadline set
C20_Witness ==
    \E dir \in Dirs :
        /\ Status(state, dir) = "Locked"
        /\ CloseTime(Cur, dir) > 0
        /\ Solenoid(Cur, dir) = LOCK
        /\ CloseAt(Cur, dir) = 0
        /\ IsOpen(state, Opposite(dir))
        /\ CloseAt(Cur, Opposite(dir)) > 0
        /\ Solenoid(Cur, Opposite(dir)) = Hold(Opposite(dir))

\* the entry handlers accept a pulse: one of them runs with the frame-ready
\* bit of the channel clear
EntryPulseAccepted ==
    /\ ISR_ENTRY_D0 \/ ISR_ENTRY_D1
    /\ STATE_ENTRY_WEIGAND_DONE \notin state

\* buffer d with bit b appended as the least significant of 64 bits
Appended(d, e, b) ==
    /\ BitAt(e, 0) = b
    /\ \A i \in 1..(DATABITS_WIDTH - 1) : BitAt(e, i) = BitAt(d, i - 1)

\* the accepted pulse is counted, shifted in and renews the deadline
CaptureStep ==
    /\ entryBitCount' = entryBitCount + 1
    /\ Appended(entryDataBits, entryDataBits', Head(sending))
    /\ entryLastBit' = millis + WEIGAND_TIMEOUT

\* train b has been sent up to the pulses still in sending, and the low
\* bits of the entry buffer are the last n of the pulses sent, the first of
\* them the most significant
InOrder(b, n) ==
    LET k == Len(b) - Len(sending) IN
    /\ k >= n
    /\ sending = SubSeq(b, k + 1, Len(b))
    /\ \A i \in 0..(n - 1) : BitAt(entryDataBits, i) = b[k - i]

\* the bits the entry buffer can hold of the n accepted
Held(n) == IF n > DATABITS_WIDTH THEN DATABITS_WIDTH ELSE n

\* the poll of lines 287-288 marks the entry frame ready exactly if the
\* deadline is set and not after now
ReadyAtPoll ==
    STATE_ENTRY_WEIGAND_DONE \in AfterPoll(Cur).state
        <=> (entryLastBit # 0 /\ entryLastBit <= millis)

\* C21, one step: an accepted pulse adds one to bitCount, shifts the buffer
\* left with the new bit the least significant and sets the deadline to now
\* + 20 ms; the bits accepted since the reset are in the low bits of the
\* buffer in arrival order; the frame is ready exactly when the deadline is
\* set and has passed.
C21_Step ==
    /\ EntryPulseAccepted => CaptureStep
    /\ reads > 0 =>
          \E b \in Bursts : InOrder(b, Held(accepted[ENTRY]))
    /\ ReadyAtPoll

\* C21: every step of a pulse train captures its bit as described.
C21_BitCapture == [][C21_Step]_vars

\* C21 while the bit counter has not reached its last value: the same,
\* with the count of bits equal to the count of accepted pulses.
C21_BelowWrapStep ==
    /\ (EntryPulseAccepted /\ entryBitCount < BITCOUNT_MOD - 1) =>
          CaptureStep
    /\ accepted[ENTRY] < BITCOUNT_MOD => entryBitCount = accepted[ENTRY]
    /\ reads > 0 =>
          \E b \in Bursts : InOrder(b, Held(accepted[ENTRY]))
    /\ ReadyAtPoll
C21_BelowWrap == [][C21_BelowWrapStep]_vars

\* a train has put more bits than the buffer is decoded from into it, in
\* order, and the deadline of the last has passed: the frame is ready
C21_ReachedReady ==
    /\ accepted[ENTRY] > WEIGAND_BITS
    /\ entryBitCount = accepted[ENTRY]
    /\ sending = <<>>
    /\ entryLastBit # 0 /\ entryLastBit <= millis
    /\ STATE_ENTRY_WEIGAND_DONE \in AfterPoll(Cur).state

\* nothing has happened since setup(): no time has passed, no card was
\* read and the door has not moved
AtStartup ==
    /\ millis = 0 /\ wallOffset = 0 /\ reads = 0
    /\ doorTrigger = 0 /\ STATE_DOOR_TRIGGER \notin state

\* C22, the initial state: at startup both directions are Locked with the
\* actuators closed, the captures are empty and there is no memo.
C22_StartupLocked ==
    AtStartup =>
        /\ \A dir \in Dirs :
              /\ Status(state, dir) = "Locked"
              /\ Solenoid(Cur, dir) = LOCK
              /\ CloseAt(Cur, dir) = 0 /\ CloseTime(Cur, dir) = 0
              /\ CaptureEmpty(Cur, dir)
        /\ lastFacilityCode = 0 /\ lastCardCode = 0

\* C22: an iteration that finds a direction Locked whose time of last
\* re-lock is unset leaves it Locked, or Unlocked by a permitted frame; it
\* does not leave it LockedOpen, whatever the sensor and the clock read.
C22_NoLockedOpenBeforeRelock ==
    \A dir \in Dirs :
        (Status(state, dir) = "Locked" /\ CloseTime(Cur, dir) = 0) =>
            /\ Status(LoopBody(Cur).state, dir) # "LockedOpen"
            /\ IsOpen(LoopBody(Cur).state, dir) => PermitProcessed(dir)

\* C23: a frame that an iteration decodes successfully is one of exactly 26
\* pulses accepted on its channel since the channel's last reset.
C23_ExactlyTwentySix ==
    \A dir \in Dirs :
        (FrameProcessed(dir) /\ Decoded(dir).ok) =>
            BeforeFrame(dir).accepted[dir] = WEIGAND_BITS

\* C23 in terms of the counter: a frame decodes only with the bit counter
\* at 26, which is the number of accepted pulses modulo 256.
C23_CounterTwentySix ==
    \A dir \in Dirs :
        /\ BitCount(Cur, dir) = accepted[dir] % BITCOUNT_MOD
        /\ (FrameProcessed(dir) /\ Decoded(dir).ok) =>
              BitCount(BeforeFrame(dir), dir) = WEIGAND_BITS

\* 282 pulses have been accepted without a gap and the deadline of the last
\* has passed: the iteration decodes card 10/500 and unlocks the entry
C23_ReachedWrap ==
    /\ accepted[ENTRY] = BITCOUNT_MOD + WEIGAND_BITS
    /\ FrameProcessed(ENTRY)
    /\ Decoded(ENTRY).ok
    /\ Decoded(ENTRY).facilityCode = 10 /\ Decoded(ENTRY).cardCode = 500
    /\ Status(state, ENTRY) = "Locked"
    /\ Status(LoopBody(Cur).state, ENTRY) = "Unlocked"

\* the sensor reads closed, so that the door does not move any more, and
\* the iteration processes no permitted frame for dir
Quiet(dir) == door = 0 /\ ~PermitProcessed(dir)

\* LockedOpen is entered only from Locked and left only to Locked
LockedOpenStep ==
    \A dir \in Dirs :
        /\ ~(Status(state, dir) = "Unlocked"
               /\ Status(state', dir) = "LockedOpen")
        /\ ~(Status(state, dir) = "LockedOpen"
               /\ Status(state', dir) = "Unlocked")

\* C24: if from some point on the sensor reads closed, no permitted frame
\* is processed for a direction and no door trigger arrives, then with
\* loop() running and the clock advancing the direction is eventually
\* Locked for good; LockedOpen is entered only from Locked and is left only
\* to Locked.
C24_EventualRelock ==
    /\ \A dir \in Dirs :
          <>[]Quiet(dir) => <>[](Status(state, dir) = "Locked")
    /\ [][LockedOpenStep]_vars

\* a direction that a card opened has been re-locked after its deadline of
\* 60 s, the door closed, while the other one was locked open at startup
\* and re-locked without a record
C24_Witness ==
    \E dir \in Dirs :
        /\ Status(state, dir) = "Locked"
        /\ CloseTime(Cur, dir) > DOOR_TIMEOUT_DEFAULT
        /\ Status(state, Opposite(dir)) = "Locked"
        /\ CloseTime(Cur, Opposite(dir)) = 0
        /\ Solenoid(Cur, Opposite(dir)) = LOCK
        /\ accepted[Opposite(dir)] = 0 /\ reads > 0
        /\ door = 0
        /\ Quiet(dir) /\ Quiet(Opposite(dir))

\* the two enabling conditions hold wherever their actions step
C24_Enabling ==
    [][/\ LoopUntil(MaxLiveMillis) => LoopCanStep
       /\ TickUntil(MaxLiveMillis) => TickCanStep]_vars

====
